---- MODULE Spec2Model ----
(***************************************************************************)
(* The slide-plan resolver of the quarterly-report generator               *)
(* (src/components/slidePlanResolver.ts, lines 1-434) together with the    *)
(* part of the application that feeds it: the report form held by the App  *)
(* component (src/unnamed/part_005) and the memoised call of               *)
(* getResolvedSlides in PreviewModal (src/components/PreviewModal.tsx).    *)
(*                                                                         *)
(* JavaScript strings are sequences of one-character strings, so that      *)
(* concatenation, case folding, substring search, trimming and number      *)
(* parsing are computed character by character as the code computes them.  *)
(* JavaScript values are tagged records (field t is the tag).              *)
(***************************************************************************)
EXTENDS Integers, Sequences, FiniteSets, TLC

(***************************************************************************)
(* Bounds of the model                                                     *)
(***************************************************************************)
\* longest photo list placed in a photo-collection field or a table's rows
MaxPhotos == 9
\* number of table fields of the KPI template (one KPI candidate each)
MaxKpiTables == 5
\* number of calls of getResolvedSlides kept in the log
MaxCalls == 2
\* largest number of chartable rows of a table of the 'points' template
MaxPoints == 7
\* longest string over NormalizeChars given to normalizeNumber on its own
MaxLen == 3
\* the largest number of words of a section title given to the classifier
MaxWords == 2
\* the largest number of keys of a row given to the column accessors
MaxKeys == 2
\* longest photo list of the 'album' template
MaxAlbum == 5

(***************************************************************************)
(* The application state                                                   *)
(*   template   activeTemplate, fixed while a report is open               *)
(*   formData   the form data of App                                       *)
(*   pc         "idle": the preview is closed; "resolved": it is open and  *)
(*              the memo holds the resolver's result; "threw": the         *)
(*              resolver raised a TypeError while rendering                *)
(*   slides     the memo `slides` of PreviewModal ([] while it is closed)  *)
(*   origin     for each slide, the template place it was made from        *)
(*   discovered the KPIs createSummarySlide collected in the last call     *)
(*   calls      the first MaxCalls calls of getResolvedSlides on a logged  *)
(*              template, with what each was given and what it returned    *)
(*   charts     what the effect of ChartSlide did for each 'chartFull'     *)
(*              slide of the last export, in slide order                   *)
(* and, for normalizeNumber run on its own (NormalizeSpec):                *)
(*   input      the argument                                               *)
(*   output     the result, NotCalled before the call                      *)
(***************************************************************************)
VARIABLES template, formData, pc, slides, origin, discovered, calls, charts, input, output,
          useAiFeatures, photoOption, aiVisualStyle, exported
\* the AI settings of PreviewModal
aiState == <<useAiFeatures, photoOption, aiVisualStyle>>
vars == <<template, formData, pc, slides, origin, discovered, calls, charts, input, output,
          aiState, exported>>


(***************************************************************************)
(* Strings                                                                 *)
(***************************************************************************)
UpperChars == <<"A","B","C","D","E","F","G","H","I","J","K","L","M",
                "N","O","P","Q","R","S","T","U","V","W","X","Y","Z">>
LowerChars == <<"a","b","c","d","e","f","g","h","i","j","k","l","m",
                "n","o","p","q","r","s","t","u","v","w","x","y","z">>
DigitChars == <<"0","1","2","3","4","5","6","7","8","9">>

lowerChar(c) ==
    IF \E i \in 1..26 : UpperChars[i] = c
    THEN LowerChars[CHOOSE i \in 1..26 : UpperChars[i] = c]
    ELSE c

\* String.prototype.toLowerCase
toLowerCase(s) == [i \in 1..Len(s) |-> lowerChar(s[i])]

\* String.prototype.includes
includes(s, sub) ==
    \E i \in 0..(Len(s) - Len(sub)) : SubSeq(s, i + 1, i + Len(sub)) = sub

isDigit(c) == \E i \in 1..10 : DigitChars[i] = c
digitVal(c) == (CHOOSE i \in 1..10 : DigitChars[i] = c) - 1
isSpace(c) == c \in {" ", "\t", "\n"}

RECURSIVE NatToStr(_)
\* decimal digits of a natural number, as String(n) prints them
NatToStr(n) ==
    IF n < 10 THEN <<DigitChars[n + 1]>>
    ELSE NatToStr(n \div 10) \o <<DigitChars[(n % 10) + 1]>>

RECURSIVE trimStart(_)
trimStart(s) == IF s # <<>> /\ isSpace(s[1]) THEN trimStart(Tail(s)) ELSE s
RECURSIVE trimEnd(_)
trimEnd(s) ==
    IF s # <<>> /\ isSpace(s[Len(s)]) THEN trimEnd(SubSeq(s, 1, Len(s) - 1)) ELSE s
\* String.prototype.trim
trim(s) == trimEnd(trimStart(s))

\* String.prototype.replace(/[...]/g, ''): drop every character of a class
RECURSIVE removeChars(_, _)
removeChars(s, class) ==
    IF s = <<>> THEN <<>>
    ELSE IF s[1] \in class THEN removeChars(Tail(s), class)
    ELSE <<s[1]>> \o removeChars(Tail(s), class)

\* longest prefix of decimal digits
RECURSIVE digitPrefix(_)
digitPrefix(s) ==
    IF s # <<>> /\ isDigit(s[1]) THEN <<s[1]>> \o digitPrefix(Tail(s)) ELSE <<>>

RECURSIVE digitsValue(_)
digitsValue(ds) ==
    IF ds = <<>> THEN 0
    ELSE 10 * digitsValue(SubSeq(ds, 1, Len(ds) - 1)) + digitVal(ds[Len(ds)])

RECURSIVE Pow10(_)
Pow10(k) == IF k = 0 THEN 1 ELSE 10 * Pow10(k - 1)

RECURSIVE joinStrings(_, _)
\* Array.prototype.join on a sequence of strings
joinStrings(ss, sep) ==
    IF ss = <<>> THEN <<>>
    ELSE IF Len(ss) = 1 THEN ss[1]
    ELSE ss[1] \o sep \o joinStrings(Tail(ss), sep)

(***************************************************************************)
(* JavaScript values                                                       *)
(*   Undefined, Null, NaN                                                  *)
(*   Str(s)      a string                                                  *)
(*   Num(n, e)   the finite number n / 10^e, e smallest possible (the      *)
(*               model does not tell -0 from 0: String, isNaN and === 0    *)
(*               do not tell them apart either)                            *)
(*   Arr(seq)    an array                                                  *)
(*   Obj(k, v)   an object with own keys k (in Object.keys order) and the  *)
(*               values v under them                                       *)
(*   Map(m)      an object of which the resolver only reads properties by  *)
(*               name (the form data, a section's data)                    *)
(* Values of different kinds are told apart by the tag alone: kinds with   *)
(* the same field names (t, v) are compared by t before v, the order in    *)
(* which the module first names them.                                      *)
(***************************************************************************)
Undefined == [t |-> "undefined"]
Null == [t |-> "null"]
NaN == [t |-> "nan"]
Str(s) == [t |-> "str", v |-> s]
Arr(seq) == [t |-> "arr", v |-> seq]
Obj(keys, vals) == [t |-> "obj", k |-> keys, v |-> vals]
Map(m) == [t |-> "map", v |-> m]
EmptyMap == Map(<<>>)

RECURSIVE canonNum(_, _)
canonNum(n, e) ==
    IF e > 0 /\ n % 10 = 0 THEN canonNum(n \div 10, e - 1)
    ELSE [t |-> "num", n |-> n, e |-> e]
Num(n, e) == canonNum(n, e)
Whole(n) == Num(n, 0)

isNullish(x) == x.t \in {"undefined", "null"}          \* x == null
isNaN(x) == x.t = "nan"
isArray(x) == x.t = "arr"                               \* Array.isArray
\* ToBoolean
truthy(x) ==
    CASE x.t \in {"undefined", "null", "nan"} -> FALSE
      [] x.t = "str" -> x.v # <<>>
      [] x.t = "num" -> x.n # 0
      [] OTHER -> TRUE
\* a || b
or(a, b) == IF truthy(a) THEN a ELSE b
\* a ?? b
coalesce(a, b) == IF isNullish(a) THEN b ELSE a

absInt(n) == IF n < 0 THEN -n ELSE n

\* Number-to-string conversion of a finite number
numToStr(x) ==
    LET pad(fs) == [i \in 1..(x.e - Len(fs)) |-> "0"] \o fs
    IN (IF x.n < 0 THEN <<"-">> ELSE <<>>) \o NatToStr(absInt(x.n) \div Pow10(x.e))
       \o (IF x.e = 0 THEN <<>> ELSE <<".">> \o pad(NatToStr(absInt(x.n) % Pow10(x.e))))

RECURSIVE String(_)
\* String(value)
String(x) ==
    CASE x.t = "undefined" -> <<"u","n","d","e","f","i","n","e","d">>
      [] x.t = "null" -> <<"n","u","l","l">>
      [] x.t = "nan" -> <<"N","a","N">>
      [] x.t = "str" -> x.v
      [] x.t = "num" -> numToStr(x)
      [] x.t = "arr" ->
            joinStrings([i \in 1..Len(x.v) |->
                            IF isNullish(x.v[i]) THEN <<>> ELSE String(x.v[i])],
                        <<",">>)
      [] OTHER -> <<"[","o","b","j","e","c","t"," ","O","b","j","e","c","t","]">>

\* parseFloat on a string without exponent part
parseFloat(s0) ==
    LET number(neg, ip, fp) ==
            IF ip = <<>> /\ fp = <<>> THEN NaN
            ELSE Num(IF neg THEN -digitsValue(ip \o fp) ELSE digitsValue(ip \o fp), Len(fp))
        fraction(rest) ==
            IF rest # <<>> /\ rest[1] = "." THEN digitPrefix(Tail(rest)) ELSE <<>>
        unsigned(neg, body, ip) ==
            number(neg, ip, fraction(SubSeq(body, Len(ip) + 1, Len(body))))
        signed(neg, body) == unsigned(neg, body, digitPrefix(body))
        trimmed(s) ==
            signed(s # <<>> /\ s[1] = "-",
                   IF s # <<>> /\ s[1] \in {"+", "-"} THEN Tail(s) ELSE s)
    IN trimmed(trimStart(s0))

\* Math.abs followed by unary minus
negAbs(x) == IF isNaN(x) THEN NaN ELSE [x EXCEPT !.n = -absInt(x.n)]

\* a normalizer that leaves the parentheses in the string it parses
normalizeNumberKeepParens(value) ==
    IF isNullish(value) THEN NaN
    ELSE LET isNegative(str) == Len(str) >= 2 /\ str[1] = "(" /\ str[Len(str)] = ")"
             cleaned(str) == removeChars(str, {"$", ",", " ", "\t", "\n"})
             signed(negative, num) == IF negative THEN negAbs(num) ELSE num
             ofString(str) == signed(isNegative(str), parseFloat(cleaned(str)))
         IN ofString(trim(String(value)))

\* SlidePlanResolver.normalizeNumber
normalizeNumber(value) ==
    IF isNullish(value) THEN NaN
    ELSE LET \* /^\(.*\)$/: '.' matches no line terminator
             isNegative(str) ==
                 /\ Len(str) >= 2 /\ str[1] = "(" /\ str[Len(str)] = ")"
                 /\ \A i \in 1..Len(str) : str[i] # "\n"
             cleaned(str) == removeChars(removeChars(str, {"$", ",", " ", "\t", "\n"}),
                                         {"(", ")"})
             signed(negative, num) == IF negative THEN negAbs(num) ELSE num
             ofString(str) == signed(isNegative(str), parseFloat(cleaned(str)))
         IN ofString(trim(String(value)))

(***************************************************************************)
(* Property access                                                         *)
(***************************************************************************)
s_photos == <<"p","h","o","t","o","s">>
s_tooltips == <<"t","o","o","l","t","i","p","s">>
s_header == <<"h","e","a","d","e","r">>
s_signatures == <<"s","i","g","n","a","t","u","r","e","s">>
s_quarter == <<"q","u","a","r","t","e","r">>
s_reportingQuarter == <<"r","e","p","o","r","t","i","n","g","Q","u","a","r","t","e","r">>
s_preparedBy == <<"p","r","e","p","a","r","e","d","B","y">>
s_reportingLeader == <<"r","e","p","o","r","t","i","n","g","L","e","a","d","e","r">>

\* the index keys "0", "1", ... of an array or a string of length n
indexKeys(n) == [i \in 1..n |-> NatToStr(i - 1)]

\* Object.keys(x) for a non-nullish x
ObjectKeys(x) ==
    CASE x.t = "obj" -> x.k
      [] x.t = "arr" -> indexKeys(Len(x.v))
      [] x.t = "str" -> indexKeys(Len(x.v))
      [] OTHER -> <<>>

\* x.hasOwnProperty(key) for a non-nullish x; the keys asked for are never
\* "length"
hasOwnProperty(x, key) ==
    LET among(keys) == \E i \in DOMAIN keys : keys[i] = key
    IN among(ObjectKeys(x))

\* x[key] for a non-nullish x; a key the value does not have gives undefined
Get(x, key) ==
    LET at(keys) ==
            IF \E i \in DOMAIN keys : keys[i] = key
            THEN IF x.t = "str" THEN Str(<<x.v[CHOOSE i \in DOMAIN keys : keys[i] = key]>>)
                 ELSE x.v[CHOOSE i \in DOMAIN keys : keys[i] = key]
            ELSE Undefined
    IN CASE x.t = "map" -> IF key \in DOMAIN x.v THEN x.v[key] ELSE Undefined
         [] x.t \in {"obj", "arr", "str"} -> at(ObjectKeys(x))
         [] OTHER -> Undefined

(***************************************************************************)
(* Column Accessor.  The source holds three textual copies; headerIndex is *)
(* 0-based as in the code.  A nullish row makes row.hasOwnProperty throw:  *)
(* the callers test rowThrows before they read.                            *)
(***************************************************************************)
rowThrows(row) == isNullish(row)

\* Object.keys(row).find(k => k.toLowerCase() === lowerHeader): the first such
\* key, undefined when there is none
findMatchingKey(row, lowerHeader) ==
    LET first(hits) == IF hits = <<>> THEN Undefined ELSE Str(hits[1])
    IN first(SelectSeq(ObjectKeys(row), LAMBDA k : toLowerCase(k) = lowerHeader))

\* Object.keys(row).filter(k => k !== 'tooltips' && k !== 'photos')
dataKeysOf(row) ==
    SelectSeq(ObjectKeys(row), LAMBDA k : k # s_tooltips /\ k # s_photos)

\* a chart accessor without the case-insensitive tier
chartGetColumnValueNoFold(row, header, headerIndex) ==
    LET byPosition(dataKeys) ==
            IF headerIndex < Len(dataKeys) THEN Get(row, dataKeys[headerIndex + 1]) ELSE Null
    IN IF hasOwnProperty(row, header) THEN Get(row, header)
       ELSE byPosition(dataKeysOf(row))

\* getColumnValue of createChartFromTable
chartGetColumnValue(row, header, headerIndex) ==
    LET byPosition(dataKeys) ==
            IF headerIndex < Len(dataKeys) THEN Get(row, dataKeys[headerIndex + 1]) ELSE Null
        byFoldedKey(matchingKey) ==
            IF truthy(matchingKey) THEN Get(row, matchingKey.v)
            ELSE byPosition(dataKeysOf(row))
    IN IF hasOwnProperty(row, header) THEN Get(row, header)
       ELSE byFoldedKey(findMatchingKey(row, toLowerCase(header)))

\* getColumnValue of createSummarySlide
summaryGetColumnValue(row, header, headerIndex) ==
    LET byPosition(dataKeys) ==
            IF headerIndex < Len(dataKeys) THEN Get(row, dataKeys[headerIndex + 1]) ELSE Null
        byFoldedKey(matchingKey) ==
            IF truthy(matchingKey) THEN Get(row, matchingKey.v)
            ELSE byPosition(dataKeysOf(row))
    IN IF hasOwnProperty(row, header) THEN Get(row, header)
       ELSE byFoldedKey(findMatchingKey(row, toLowerCase(header)))

\* a table accessor whose positional tier counts the reserved keys too
tableGetColumnValueAllKeys(row, header, headerIndex) ==
    LET byPosition(dataKeys) ==
            IF headerIndex < Len(dataKeys)
            THEN String(coalesce(Get(row, dataKeys[headerIndex + 1]), Str(<<>>)))
            ELSE <<>>
        byFoldedKey(matchingKey) ==
            IF truthy(matchingKey) THEN String(coalesce(Get(row, matchingKey.v), Str(<<>>)))
            ELSE byPosition(ObjectKeys(row))
    IN IF hasOwnProperty(row, header) THEN String(coalesce(Get(row, header), Str(<<>>)))
       ELSE byFoldedKey(findMatchingKey(row, toLowerCase(header)))

\* getColumnValue of createSlidesForSection (table branch): string form
tableGetColumnValue(row, header, headerIndex) ==
    LET byPosition(dataKeys) ==
            IF headerIndex < Len(dataKeys)
            THEN String(coalesce(Get(row, dataKeys[headerIndex + 1]), Str(<<>>)))
            ELSE <<>>
        byFoldedKey(matchingKey) ==
            IF truthy(matchingKey) THEN String(coalesce(Get(row, matchingKey.v), Str(<<>>)))
            ELSE byPosition(dataKeysOf(row))
    IN IF hasOwnProperty(row, header) THEN String(coalesce(Get(row, header), Str(<<>>)))
       ELSE byFoldedKey(findMatchingKey(row, toLowerCase(header)))

(***************************************************************************)
(* Icon-Prompt Classifier                                                  *)
(***************************************************************************)
p_financial == <<"A"," ","c","l","e","a","n",","," ","m","o","d","e","r","n"," ","i","c","o","n"," ","r","e","p","r","e","s","e","n","t","i","n","g"," ","f","i","n","a","n","c","i","a","l"," ","d","a","t","a"," ","a","n","d"," ","m","o","n","e","t","a","r","y"," ","t","r","a","n","s","a","c","t","i","o","n","s">>
p_membership == <<"A"," ","s","i","m","p","l","e"," ","i","c","o","n"," ","r","e","p","r","e","s","e","n","t","i","n","g"," ","p","e","o","p","l","e"," ","a","n","d"," ","c","o","m","m","u","n","i","t","y"," ","e","n","g","a","g","e","m","e","n","t">>
p_program == <<"A","n"," ","i","c","o","n"," ","r","e","p","r","e","s","e","n","t","i","n","g"," ","p","r","o","g","r","a","m","s",","," ","a","c","t","i","v","i","t","i","e","s",","," ","a","n","d"," ","m","i","n","i","s","t","r","y"," ","w","o","r","k">>
p_youth == <<"A"," ","f","r","i","e","n","d","l","y"," ","i","c","o","n"," ","r","e","p","r","e","s","e","n","t","i","n","g"," ","y","o","u","t","h"," ","a","n","d"," ","c","h","i","l","d","r","e","n"," ","p","r","o","g","r","a","m","s">>
p_outreach == <<"A","n"," ","i","c","o","n"," ","r","e","p","r","e","s","e","n","t","i","n","g"," ","c","o","m","m","u","n","i","t","y"," ","o","u","t","r","e","a","c","h"," ","a","n","d"," ","m","i","s","s","i","o","n"," ","w","o","r","k">>
p_generic == <<"A"," ","p","r","o","f","e","s","s","i","o","n","a","l"," ","i","c","o","n"," ","r","e","p","r","e","s","e","n","t","i","n","g"," ","c","h","u","r","c","h"," ","m","i","n","i","s","t","r","y"," ","a","n","d"," ","a","d","m","i","n","i","s","t","r","a","t","i","o","n">>
p_summary == <<"A"," ","m","i","n","i","m","a","l","i","s","t"," ","i","c","o","n"," ","r","e","p","r","e","s","e","n","t","i","n","g"," ","k","e","y"," ","p","e","r","f","o","r","m","a","n","c","e"," ","m","e","t","r","i","c","s"," ","a","n","d"," ","s","u","m","m","a","r","y"," ","s","t","a","t","i","s","t","i","c","s">>

\* a classifier that looks for youth and children before programs
getIconPromptForSectionYouthFirst(section) ==
    LET sectionTitle == toLowerCase(section.title)
        has(w) == includes(sectionTitle, w)
    IN IF has(<<"f","i","n","a","n","c","i","a","l">>) \/ has(<<"t","r","e","a","s","u","r","y">>)
          \/ has(<<"r","e","c","e","i","p","t">>) \/ has(<<"d","i","s","b","u","r","s","e","m","e","n","t">>)
       THEN p_financial
       ELSE IF has(<<"m","e","m","b","e","r","s","h","i","p">>) \/ has(<<"a","t","t","e","n","d","a","n","c","e">>)
       THEN p_membership
       ELSE IF has(<<"y","o","u","t","h">>) \/ has(<<"c","h","i","l","d","r","e","n">>)
       THEN p_youth
       ELSE IF has(<<"p","r","o","g","r","a","m">>) \/ has(<<"a","c","t","i","v","i","t","i","e","s">>)
               \/ has(<<"m","i","n","i","s","t","r","i","e","s">>)
       THEN p_program
       ELSE IF has(<<"o","u","t","r","e","a","c","h">>) \/ has(<<"m","i","s","s","i","o","n">>)
       THEN p_outreach
       ELSE p_generic

\* SlidePlanResolver.getIconPromptForSection
getIconPromptForSection(section) ==
    LET sectionTitle == toLowerCase(section.title)
        has(w) == includes(sectionTitle, w)
    IN IF has(<<"f","i","n","a","n","c","i","a","l">>) \/ has(<<"t","r","e","a","s","u","r","y">>)
          \/ has(<<"r","e","c","e","i","p","t">>) \/ has(<<"d","i","s","b","u","r","s","e","m","e","n","t">>)
       THEN p_financial
       ELSE IF has(<<"m","e","m","b","e","r","s","h","i","p">>) \/ has(<<"a","t","t","e","n","d","a","n","c","e">>)
       THEN p_membership
       ELSE IF has(<<"p","r","o","g","r","a","m">>) \/ has(<<"a","c","t","i","v","i","t","i","e","s">>)
               \/ has(<<"m","i","n","i","s","t","r","i","e","s">>)
       THEN p_program
       ELSE IF has(<<"y","o","u","t","h">>) \/ has(<<"c","h","i","l","d","r","e","n">>)
       THEN p_youth
       ELSE IF has(<<"o","u","t","r","e","a","c","h">>) \/ has(<<"m","i","s","s","i","o","n">>)
       THEN p_outreach
       ELSE p_generic

(***************************************************************************)
(* Templates (src/types.ts) and resolved slides                            *)
(*   field:    [id, label, type, columns]; columns is NoColumns or         *)
(*             Columns(<<header, ...>>)                                    *)
(*   section:  [id, title, fields]                                         *)
(*   template: [key, name, title, sections]                                *)
(* A resolved slide is [id, title, layout, data, originalLayout]; an       *)
(* absent generativeIconPrompt or suggestedChart is Undefined.             *)
(***************************************************************************)
NoColumns == [t |-> "undefined"]
Columns(hs) == [t |-> "arr", v |-> hs]

Slide(id, title, layout, data, prompt, chart) ==
    [id |-> id, title |-> title, layout |-> layout, data |-> data,
     originalLayout |-> [generativeIconPrompt |-> prompt, suggestedChart |-> chart]]

\* a slide together with the place of the template it was made from
\* (kind, 1-based section position, 0-based index in its field group)
Made(slide, kind, sectionIndex, fieldIndex) ==
    [slide |-> slide,
     src |-> [kind |-> kind, section |-> sectionIndex, field |-> fieldIndex]]

RECURSIVE Flatten(_)
Flatten(ss) == IF ss = <<>> THEN <<>> ELSE ss[1] \o Flatten(Tail(ss))

\* images per photo-grid slide
PhotosPerSlide == 4
\* largest number of data points shown as a pie chart
PieMaxPoints == 5
\* smallest and largest number of KPIs of a summary slide
MinKpis == 2
MaxKpis == 4

s_pie == <<"p","i","e">>
s_bar == <<"b","a","r">>

\* a title slide that shows the template's name and is laid out as a section
\* slide when the form has no header data
createTitleSlideNamed(this) ==
    Slide(<<"t","i","t","l","e","-">> \o this.template.key, this.template.name,
          IF or(Get(this.formData, s_header), EmptyMap) = EmptyMap
          THEN "imageLeftTextRight" ELSE "title",
          [subtitle |-> Str(<<>>), author |-> Str(<<>>)], Undefined, Undefined)

\* a title slide that reads the second alias of each pair before the first
createTitleSlideAliasFirst(this) ==
    LET quarter(headerData) ==
            or(or(Get(headerData, s_reportingQuarter), Get(headerData, s_quarter)), Str(<<>>))
        preparedBy(headerData) ==
            or(or(Get(headerData, s_reportingLeader), Get(headerData, s_preparedBy)),
               Str(<<>>))
        slide(headerData) ==
            Slide(<<"t","i","t","l","e","-">> \o this.template.key, this.template.title, "title",
                  [subtitle |-> quarter(headerData), author |-> preparedBy(headerData)],
                  Undefined, Undefined)
    IN slide(or(Get(this.formData, s_header), EmptyMap))

\* SlidePlanResolver.createTitleSlide; this.formData is not nullish
createTitleSlide(this) ==
    LET quarter(headerData) ==
            or(or(Get(headerData, s_quarter), Get(headerData, s_reportingQuarter)), Str(<<>>))
        preparedBy(headerData) ==
            or(or(Get(headerData, s_preparedBy), Get(headerData, s_reportingLeader)),
               Str(<<>>))
        slide(headerData) ==
            Slide(<<"t","i","t","l","e","-">> \o this.template.key, this.template.title, "title",
                  [subtitle |-> quarter(headerData), author |-> preparedBy(headerData)],
                  Undefined, Undefined)
    IN slide(or(Get(this.formData, s_header), EmptyMap))

createTitleSlideThrows(this) == isNullish(this.formData)

\* pages that leave out a last page of fewer than four images
photoPagesFull(images) ==
    [p \in 1..(Len(images) \div PhotosPerSlide) |->
        SubSeq(images, PhotosPerSlide * (p - 1) + 1, PhotosPerSlide * p)]

\* the photo pages of createSlidesForSection: for (i = 0; i < n; i += 4)
photoPages(images) ==
    [p \in 1..((Len(images) + PhotosPerSlide - 1) \div PhotosPerSlide) |->
        SubSeq(images, PhotosPerSlide * (p - 1) + 1,
               IF PhotosPerSlide * p < Len(images) THEN PhotosPerSlide * p
               ELSE Len(images))]

\* ` (${pageNum}/${totalPages})` when totalPages > 1, else ''
pageIndicator(pageNum, totalPages) ==
    IF totalPages > 1
    THEN <<" ", "(">> \o NatToStr(pageNum) \o <<"/">> \o NatToStr(totalPages) \o <<")">>
    ELSE <<>>

\* field.label || section.title
labelOrTitle(field, section) == IF field.label # <<>> THEN field.label ELSE section.title

\* a choice of the last column that holds a number
chartValueColIndexLast(headers, tableData) ==
    LET numeric(val) == ~isNullish(val) /\ ~isNaN(normalizeNumber(val))
        hasNumeric(i) ==
            \E r \in 1..Len(tableData) :
                numeric(chartGetColumnValue(tableData[r], headers[i + 1], i))
        last(cands) == IF cands = <<>> THEN -1 ELSE cands[Len(cands)]
    IN last(SelectSeq([i \in 1..(Len(headers) - 1) |-> i], hasNumeric))

\* createChartFromTable: the value column (0-based), -1 when none
chartValueColIndex(headers, tableData) ==
    LET numeric(val) == ~isNullish(val) /\ ~isNaN(normalizeNumber(val))
        hasNumeric(i) ==
            \E r \in 1..Len(tableData) :
                numeric(chartGetColumnValue(tableData[r], headers[i + 1], i))
        first(cands) == IF cands = <<>> THEN -1 ELSE cands[1]
    IN first(SelectSeq([i \in 1..(Len(headers) - 1) |-> i], hasNumeric))

\* a filter that keeps the rows labelled as totals
chartKeepsTotals(item) == item.label # <<>> /\ ~isNaN(item.value)

\* the rows a chart keeps
chartKeeps(item) ==
    LET label == toLowerCase(item.label)
    IN /\ item.label # <<>>
       /\ ~isNaN(item.value)
       /\ label # <<"t","o","t","a","l">>
       /\ label # <<"n","e","t"," ","s","u","r","p","l","u","s"," ","/"," ","(","d","e","f","i","c","i","t",")">>
       /\ label # <<"g","r","a","n","d"," ","t","o","t","a","l">>

\* chart data whose values run against the order of their labels
chartDataOfValuesReversed(headers, tableData, valueColIndex) ==
    LET reversed(kept) ==
            [k \in 1..Len(kept) |-> [label |-> kept[k].label,
                                      value |-> kept[Len(kept) + 1 - k].value]]
    IN reversed(SelectSeq([r \in 1..Len(tableData) |->
                  [label |-> String(coalesce(chartGetColumnValue(tableData[r], headers[1], 0),
                                             Str(<<>>))),
                   value |-> normalizeNumber(
                                 chartGetColumnValue(tableData[r], headers[valueColIndex + 1],
                                                     valueColIndex))]],
              chartKeeps))

\* createChartFromTable: chartData
chartDataOf(headers, tableData, valueColIndex) ==
    SelectSeq([r \in 1..Len(tableData) |->
                  [label |-> String(coalesce(chartGetColumnValue(tableData[r], headers[1], 0),
                                             Str(<<>>))),
                   value |-> normalizeNumber(
                                 chartGetColumnValue(tableData[r], headers[valueColIndex + 1],
                                                     valueColIndex))]],
              chartKeeps)

\* a test that lets a chart of zeros through
chartIsEmptyNoData(chartData) == Len(chartData) = 0

\* chartData.length === 0 || chartData.every(item => item.value === 0)
chartIsEmpty(chartData) ==
    Len(chartData) = 0 \/ \A i \in 1..Len(chartData) : chartData[i].value.n = 0

\* a choice that draws five points as bars
chartTypeForFive(n) == IF n >= PieMaxPoints THEN s_bar ELSE s_pie

\* values.length > 5 ? 'bar' : 'pie'
chartTypeFor(n) == IF n > PieMaxPoints THEN s_bar ELSE s_pie

\* a chart slide whose icon prompt names a pie chart whatever the chart type
createChartFromTablePiePrompt(this, field, tableData, section, fieldIndex) ==
    IF field.columns.t = "undefined" \/ Len(field.columns.v) < 2 THEN <<>>
    ELSE LET headers == field.columns.v
             slide(labels, values, chartType) ==
                 Slide(section.id \o <<"-","c","h","a","r","t","-">> \o NatToStr(fieldIndex),
                       labelOrTitle(field, section) \o <<" ","-"," ","C","h","a","r","t">>,
                       "chartFull",
                       [chart |-> [chartType |-> chartType,
                                   data |-> [labels |-> labels, values |-> values]]],
                       Str(<<"A", " ">> \o s_pie
                           \o <<" ","c","h","a","r","t"," ","i","c","o","n"," ","r","e","p","r","e","s","e","n","t","i","n","g"," ","d","a","t","a"," ","v","i","s","u","a","l","i","z","a","t","i","o","n">>),
                       [chartType |-> chartType,
                        dataPath |-> <<"$", ".">> \o section.id \o <<".">> \o field.id])
             ofData(chartData) ==
                 IF chartIsEmpty(chartData) THEN <<>>
                 ELSE << slide([i \in 1..Len(chartData) |-> chartData[i].label],
                               [i \in 1..Len(chartData) |-> chartData[i].value],
                               chartTypeFor(Len(chartData))) >>
             ofColumn(valueColIndex) ==
                 IF valueColIndex = -1 THEN <<>>
                 ELSE ofData(chartDataOf(headers, tableData, valueColIndex))
         IN ofColumn(chartValueColIndex(headers, tableData))

\* SlidePlanResolver.createChartFromTable: <<>> for null, else <<slide>>
createChartFromTable(this, field, tableData, section, fieldIndex) ==
    IF field.columns.t = "undefined" \/ Len(field.columns.v) < 2 THEN <<>>
    ELSE LET headers == field.columns.v
             slide(labels, values, chartType) ==
                 Slide(section.id \o <<"-","c","h","a","r","t","-">> \o NatToStr(fieldIndex),
                       labelOrTitle(field, section) \o <<" ","-"," ","C","h","a","r","t">>,
                       "chartFull",
                       [chart |-> [chartType |-> chartType,
                                   data |-> [labels |-> labels, values |-> values]]],
                       Str(<<"A", " ">> \o chartType
                           \o <<" ","c","h","a","r","t"," ","i","c","o","n"," ","r","e","p","r","e","s","e","n","t","i","n","g"," ","d","a","t","a"," ","v","i","s","u","a","l","i","z","a","t","i","o","n">>),
                       [chartType |-> chartType,
                        dataPath |-> <<"$", ".">> \o section.id \o <<".">> \o field.id])
             ofData(chartData) ==
                 IF chartIsEmpty(chartData) THEN <<>>
                 ELSE << slide([i \in 1..Len(chartData) |-> chartData[i].label],
                               [i \in 1..Len(chartData) |-> chartData[i].value],
                               chartTypeFor(Len(chartData))) >>
             ofColumn(valueColIndex) ==
                 IF valueColIndex = -1 THEN <<>>
                 ELSE ofData(chartDataOf(headers, tableData, valueColIndex))
         IN ofColumn(chartValueColIndex(headers, tableData))

\* this.formData[section.id] || {}
sectionDataOf(this, section) == or(Get(this.formData, section.id), EmptyMap)

\* section.fields.filter(f => f.type === ...)
fieldsOfType(section, types) == SelectSeq(section.fields, LAMBDA f : f.type \in types)

\* tableData.flatMap(row => row.photos || []).filter(Boolean)
tablePhotosOf(tableData) ==
    LET concat(ph) == IF isArray(ph) THEN ph.v ELSE <<ph>>
        perRow(row) == concat(or(Get(row, s_photos), Arr(<<>>)))
    IN SelectSeq(Flatten([r \in 1..Len(tableData) |-> perRow(tableData[r])]), truthy)

\* a guard without the test for an empty list
tableHasRowsAnyList(tableData) == truthy(tableData) /\ isArray(tableData)

\* !(!tableData || !Array.isArray(tableData) || tableData.length === 0)
tableHasRows(tableData) == truthy(tableData) /\ isArray(tableData) /\ Len(tableData.v) > 0

\* createSlidesForSection, tables.forEach body
tableFieldSlides(this, section, sectionIndex, sectionData, field, fieldIndex) ==
    LET headers == IF field.columns.t = "undefined" THEN <<>> ELSE field.columns.v
        rows(tableData) ==
            [r \in 1..Len(tableData) |->
                [h \in 1..Len(headers) |-> tableGetColumnValue(tableData[r], headers[h], h - 1)]]
        tableSlide(tableData) ==
            Slide(section.id \o <<"-","t","a","b","l","e","-">> \o NatToStr(fieldIndex),
                  labelOrTitle(field, section), "twoColumn",
                  [table |-> [headers |-> headers, rows |-> rows(tableData)]],
                  Str(getIconPromptForSection(section)), Undefined)
        photoSlide(pages, p) ==
            Slide(section.id \o <<"-","t","a","b","l","e","-","p","h","o","t","o","s","-">> \o NatToStr(fieldIndex)
                      \o <<"-","p","a","g","e">> \o NatToStr(p),
                  labelOrTitle(field, section) \o <<" ","-"," ","P","h","o","t","o","s">>
                      \o pageIndicator(p, Len(pages)),
                  "photoGrid", [images |-> pages[p]], Undefined, Undefined)
        pushed(chartSlide, pages) ==
            [c \in 1..Len(chartSlide) |-> Made(chartSlide[c], "chart", sectionIndex, fieldIndex)]
            \o [p \in 1..Len(pages) |->
                   Made(photoSlide(pages, p), "tablePhotos", sectionIndex, fieldIndex)]
        ofTable(tableData) ==
            IF ~tableHasRows(tableData) THEN <<>>
            ELSE <<Made(tableSlide(tableData.v), "table", sectionIndex, fieldIndex)>>
                 \o pushed(createChartFromTable(this, field, tableData.v, section, fieldIndex),
                           photoPages(tablePhotosOf(tableData.v)))
    IN ofTable(Get(sectionData, field.id))

\* a bullet slide that keeps the empty placeholders of the list
bulletFieldSlidesUnfiltered(this, section, sectionIndex, sectionData, field, fieldIndex) ==
    LET ofBullets(bulletData) ==
            IF ~truthy(bulletData) \/ ~isArray(bulletData)
               \/ Len(SelectSeq(bulletData.v, truthy)) = 0 THEN <<>>
            ELSE << Made(Slide(section.id \o <<"-","b","u","l","l","e","t","-">> \o NatToStr(fieldIndex),
                               labelOrTitle(field, section), "imageLeftTextRight",
                               [list |-> bulletData.v, image |-> Null],
                               Str(getIconPromptForSection(section)), Undefined),
                         "bullet", sectionIndex, fieldIndex) >>
    IN ofBullets(Get(sectionData, field.id))

\* createSlidesForSection, bullets.forEach body
bulletFieldSlides(this, section, sectionIndex, sectionData, field, fieldIndex) ==
    LET ofBullets(bulletData) ==
            IF ~truthy(bulletData) \/ ~isArray(bulletData)
               \/ Len(SelectSeq(bulletData.v, truthy)) = 0 THEN <<>>
            ELSE << Made(Slide(section.id \o <<"-","b","u","l","l","e","t","-">> \o NatToStr(fieldIndex),
                               labelOrTitle(field, section), "imageLeftTextRight",
                               [list |-> SelectSeq(bulletData.v, truthy), image |-> Null],
                               Str(getIconPromptForSection(section)), Undefined),
                         "bullet", sectionIndex, fieldIndex) >>
    IN ofBullets(Get(sectionData, field.id))

\* createSlidesForSection, photos.forEach body
photoFieldSlides(this, section, sectionIndex, sectionData, field, fieldIndex) ==
    LET photoSlide(pages, p) ==
            Slide(section.id \o <<"-","p","h","o","t","o","s","-">> \o NatToStr(fieldIndex)
                      \o <<"-","p","a","g","e">> \o NatToStr(p),
                  labelOrTitle(field, section) \o pageIndicator(p, Len(pages)),
                  "photoGrid", [images |-> pages[p]], Undefined, Undefined)
        pushed(pages) ==
            [p \in 1..Len(pages) |-> Made(photoSlide(pages, p), "photos", sectionIndex, fieldIndex)]
        ofPhotos(photoData) ==
            IF ~truthy(photoData) \/ ~isArray(photoData) \/ Len(photoData.v) = 0 THEN <<>>
            ELSE pushed(photoPages(photoData.v))
    IN ofPhotos(Get(sectionData, field.id))

\* a text summary that lists every scalar field, the empty ones with an
\* empty value
textSummarySlidesAllFields(this, section, sectionIndex, sectionData, textFields) ==
    LET line(field, value) == field.label \o <<":", " ">> \o String(or(value, Str(<<>>)))
        listed(withValue) ==
            [i \in 1..Len(withValue) |-> line(withValue[i], Get(sectionData, withValue[i].id))]
        ofList(textList, filled) ==
            IF Len(textFields) > 0 /\ filled
            THEN << Made(Slide(section.id \o <<"-","t","e","x","t","-","s","u","m","m","a","r","y">>, section.title,
                               "imageLeftTextRight", [list |-> textList, image |-> Null],
                               Str(getIconPromptForSection(section)), Undefined),
                         "text", sectionIndex, 0) >>
            ELSE <<>>
    IN ofList(listed(textFields), \E i \in 1..Len(textFields) : truthy(Get(sectionData, textFields[i].id)))

\* createSlidesForSection, text summary
textSummarySlides(this, section, sectionIndex, sectionData, textFields) ==
    LET line(field, value) == field.label \o <<":", " ">> \o String(value)
        listed(withValue) ==
            [i \in 1..Len(withValue) |-> line(withValue[i], Get(sectionData, withValue[i].id))]
        ofList(textList) ==
            IF Len(textFields) > 0 /\ Len(textList) > 0
            THEN << Made(Slide(section.id \o <<"-","t","e","x","t","-","s","u","m","m","a","r","y">>, section.title,
                               "imageLeftTextRight", [list |-> textList, image |-> Null],
                               Str(getIconPromptForSection(section)), Undefined),
                         "text", sectionIndex, 0) >>
            ELSE <<>>
    IN ofList(listed(SelectSeq(textFields, LAMBDA f : truthy(Get(sectionData, f.id)))))

\* a section whose photo collections come before its bullet lists
createSlidesForSectionPhotosFirst(this, section, sectionIndex) ==
    LET sectionData == sectionDataOf(this, section)
        tables == fieldsOfType(section, {"table"})
        bullets == fieldsOfType(section, {"bullet"})
        photos == fieldsOfType(section, {"photos"})
        textFields == fieldsOfType(section, {"text", "textarea", "number", "date"})
    IN Flatten([i \in 1..Len(tables) |->
                   tableFieldSlides(this, section, sectionIndex, sectionData, tables[i], i - 1)])
       \o Flatten([i \in 1..Len(photos) |->
                   photoFieldSlides(this, section, sectionIndex, sectionData, photos[i], i - 1)])
       \o Flatten([i \in 1..Len(bullets) |->
                   bulletFieldSlides(this, section, sectionIndex, sectionData, bullets[i], i - 1)])
       \o textSummarySlides(this, section, sectionIndex, sectionData, textFields)

\* SlidePlanResolver.createSlidesForSection; no table row is nullish
createSlidesForSection(this, section, sectionIndex) ==
    LET sectionData == sectionDataOf(this, section)
        tables == fieldsOfType(section, {"table"})
        bullets == fieldsOfType(section, {"bullet"})
        photos == fieldsOfType(section, {"photos"})
        textFields == fieldsOfType(section, {"text", "textarea", "number", "date"})
    IN Flatten([i \in 1..Len(tables) |->
                   tableFieldSlides(this, section, sectionIndex, sectionData, tables[i], i - 1)])
       \o Flatten([i \in 1..Len(bullets) |->
                   bulletFieldSlides(this, section, sectionIndex, sectionData, bullets[i], i - 1)])
       \o Flatten([i \in 1..Len(photos) |->
                   photoFieldSlides(this, section, sectionIndex, sectionData, photos[i], i - 1)])
       \o textSummarySlides(this, section, sectionIndex, sectionData, textFields)

\* a table row on which row.hasOwnProperty or row.photos raises a TypeError
createSlidesForSectionThrows(this, section) ==
    LET sectionData == sectionDataOf(this, section)
        tables == fieldsOfType(section, {"table"})
    IN \E i \in 1..Len(tables) :
          LET tableData == Get(sectionData, tables[i].id)
          IN /\ tableHasRows(tableData)
             /\ \E r \in 1..Len(tableData.v) : rowThrows(tableData.v[r])

\* a test that passes over the header section only
isReservedHeaderOnly(section) == section.id = s_header

\* section.id === 'header' || section.id === 'signatures'
isReserved(section) == section.id = s_header \/ section.id = s_signatures

\* a test that takes only the label 'total' itself
isTotalRowExact(row, headers) ==
    toLowerCase(String(coalesce(summaryGetColumnValue(row, headers[1], 0), Str(<<>>))))
       = <<"t","o","t","a","l">>

\* createSummarySlide: label contains 'total', 'surplus' or 'deficit'
isTotalRow(row, headers) ==
    LET marked(labelValue) ==
            \/ includes(labelValue, <<"t","o","t","a","l">>)
            \/ includes(labelValue, <<"s","u","r","p","l","u","s">>)
            \/ includes(labelValue, <<"d","e","f","i","c","i","t">>)
    IN marked(toLowerCase(String(coalesce(summaryGetColumnValue(row, headers[1], 0),
                                          Str(<<>>)))))

\* a KPI scan that goes on to later total rows when the first one has no
\* numeric column
fieldKpiAnyTotalRow(sectionData, field, sectionIndex, fieldPos) ==
    LET headers == field.columns.v
        numValue(totalRow, i) ==
            normalizeNumber(summaryGetColumnValue(totalRow, headers[i + 1], i))
        hasNumber(totalRow) == \E i \in 1..(Len(headers) - 1) : ~isNaN(numValue(totalRow, i))
        pushed(totalRow, i) ==
            << [value |-> numValue(totalRow, i),
                label |-> IF field.label # <<>> THEN field.label ELSE headers[i + 1],
                section |-> sectionIndex, field |-> fieldPos] >>
        firstOf(totalRow, numeric) ==
            IF numeric = <<>> THEN <<>> ELSE pushed(totalRow, numeric[1])
        ofTotalRow(totalRow) ==
            IF ~truthy(totalRow) THEN <<>>
            ELSE firstOf(totalRow,
                         SelectSeq([i \in 1..(Len(headers) - 1) |-> i],
                                   LAMBDA i : ~isNaN(numValue(totalRow, i))))
        ofFound(found) == IF found = <<>> THEN <<>> ELSE ofTotalRow(found[1])
        ofTable(tableData) ==
            IF ~isArray(tableData) THEN <<>>
            ELSE ofFound(SelectSeq(tableData.v,
                                   LAMBDA row : isTotalRow(row, headers) /\ hasNumber(row)))
    IN IF ~(field.type = "table" /\ field.columns.t # "undefined") THEN <<>>
       ELSE ofTable(Get(sectionData, field.id))

\* createSummarySlide: the KPI of one field, <<>> when it has none
fieldKpi(sectionData, field, sectionIndex, fieldPos) ==
    LET headers == field.columns.v
        numValue(totalRow, i) ==
            normalizeNumber(summaryGetColumnValue(totalRow, headers[i + 1], i))
        pushed(totalRow, i) ==
            << [value |-> numValue(totalRow, i),
                label |-> IF field.label # <<>> THEN field.label ELSE headers[i + 1],
                section |-> sectionIndex, field |-> fieldPos] >>
        firstOf(totalRow, numeric) ==
            IF numeric = <<>> THEN <<>> ELSE pushed(totalRow, numeric[1])
        ofTotalRow(totalRow) ==
            IF ~truthy(totalRow) THEN <<>>
            ELSE firstOf(totalRow,
                         SelectSeq([i \in 1..(Len(headers) - 1) |-> i],
                                   LAMBDA i : ~isNaN(numValue(totalRow, i))))
        ofFound(found) == IF found = <<>> THEN <<>> ELSE ofTotalRow(found[1])
        ofTable(tableData) ==
            IF ~isArray(tableData) THEN <<>>
            ELSE ofFound(SelectSeq(tableData.v, LAMBDA row : isTotalRow(row, headers)))
    IN IF ~(field.type = "table" /\ field.columns.t # "undefined") THEN <<>>
       ELSE ofTable(Get(sectionData, field.id))

\* createSummarySlide: the KPIs in discovery order, each with the section and
\* field position it was found at
collectKpis(this) ==
    LET secs == this.template.sections
        ofSection(s) ==
            IF isReserved(secs[s]) THEN <<>>
            ELSE Flatten([f \in 1..Len(secs[s].fields) |->
                            fieldKpi(sectionDataOf(this, secs[s]), secs[s].fields[f], s, f)])
    IN Flatten([s \in 1..Len(secs) |-> ofSection(s)])

\* a gate that lets a single KPI through
summaryGateFromOne(n) == n >= 1 /\ n <= MaxKpis

\* kpis.length >= 2 && kpis.length <= 4
summaryGate(n) == n >= MinKpis /\ n <= MaxKpis

\* SlidePlanResolver.createSummarySlide: <<>> for null, else <<slide>>
createSummarySlide(this) ==
    LET slice(kpis) == SubSeq(kpis, 1, IF Len(kpis) < MaxKpis THEN Len(kpis) ELSE MaxKpis)
        shown(kpis) == [i \in 1..Len(kpis) |-> [value |-> kpis[i].value, label |-> kpis[i].label]]
        ofKpis(kpis) ==
            IF summaryGate(Len(kpis))
            THEN << Slide(<<"s","u","m","m","a","r","y","-">> \o this.template.key,
                          <<"E","x","e","c","u","t","i","v","e"," ","S","u","m","m","a","r","y">>, "summary",
                          [kpis |-> shown(slice(kpis))], Str(p_summary), Undefined) >>
            ELSE <<>>
    IN ofKpis(collectKpis(this))

\* a table of a non-reserved section with an empty column list and a row
\* (headers[0].toLowerCase()), or a nullish row reached by find
createSummarySlideThrows(this) ==
    \E s \in 1..Len(this.template.sections) :
      LET section == this.template.sections[s]
          sectionData == sectionDataOf(this, section)
      IN /\ ~isReserved(section)
         /\ \E f \in 1..Len(section.fields) :
              LET field == section.fields[f]
                  tableData == Get(sectionData, field.id)
              IN /\ field.type = "table" /\ field.columns.t # "undefined"
                 /\ isArray(tableData)
                 /\ \/ Len(field.columns.v) = 0 /\ Len(tableData.v) > 0
                    \/ \E r \in 1..Len(tableData.v) :
                          /\ rowThrows(tableData.v[r])
                          /\ \A q \in 1..(r - 1) :
                                /\ ~rowThrows(tableData.v[q])
                                /\ ~isTotalRow(tableData.v[q], field.columns.v)

\* SlidePlanResolver.createPhotoGridSlide
createPhotoGridSlide(this) == <<>>

\* SlidePlanResolver.resolve: the slides in order, each with its origin
resolve(this) ==
    LET secs == this.template.sections
        sectionSlides(s) ==
            IF isReserved(secs[s]) THEN <<>> ELSE createSlidesForSection(this, secs[s], s)
        pushed(slide, kind) == [i \in 1..Len(slide) |-> Made(slide[i], kind, 0, 0)]
    IN <<Made(createTitleSlide(this), "title", 0, 0)>>
       \o Flatten([s \in 1..Len(secs) |-> sectionSlides(s)])
       \o pushed(createSummarySlide(this), "summary")
       \o pushed(createPhotoGridSlide(this), "photoGrid")

\* resolve raises a TypeError instead of returning
resolveThrows(this) ==
    \/ createTitleSlideThrows(this)
    \/ \E s \in 1..Len(this.template.sections) :
          /\ ~isReserved(this.template.sections[s])
          /\ createSlidesForSectionThrows(this, this.template.sections[s])
    \/ createSummarySlideThrows(this)

\* a resolver that keeps the form data of the last logged call
SlidePlanResolverStale(tpl, data) ==
    IF calls = <<>> THEN [template |-> tpl, formData |-> data]
    ELSE [template |-> tpl, formData |-> calls[Len(calls)].formData]

\* new SlidePlanResolver(template, formData)
SlidePlanResolver(tpl, data) == [template |-> tpl, formData |-> data]

(***************************************************************************)
(* The chart renderer (src/components/slide_layouts/ChartSlide.tsx)        *)
(***************************************************************************)
\* slides.filter(s => s.layout === 'chartFull'), each with its position
chartFullSlides(seq) ==
    SelectSeq([i \in 1..Len(seq) |-> [index |-> i, slide |-> seq[i]]],
              LAMBDA e : e.slide.layout = "chartFull")

\* the effect of ChartSlide for the slide it is given.  The canvas is
\* mounted (chartRef.current) and slide.data is an object; ctx tells whether
\* getContext('2d') gave a context.
\*   const { chartType, data } = slide.data         either may be undefined
\*   if (ctx && data.labels && data.values)         TypeError on an undefined data
\*   safeChartType = chartType === 'bar' || chartType === 'pie' ? chartType : 'bar'
ChartSlide(e, ctx) ==
    LET has(rec, name) == name \in DOMAIN rec
        safeChartType(rec) ==
            IF has(rec, "chartType") /\ rec.chartType \in {s_bar, s_pie} THEN rec.chartType
            ELSE s_bar
        drawn(rec, data) ==
            IF has(data, "labels") /\ has(data, "values")
            THEN [index |-> e.index, result |-> "drawn", chartType |-> safeChartType(rec),
                  labels |-> data.labels, values |-> data.values]
            ELSE [index |-> e.index, result |-> "blank"]
        effect(rec) ==
            IF ~ctx THEN [index |-> e.index, result |-> "blank"]
            ELSE IF ~has(rec, "data") THEN [index |-> e.index, result |-> "threw"]
            ELSE drawn(rec, rec.data)
    IN effect(e.slide.data)

(***************************************************************************)
(* The AI settings and the export of PreviewModal                          *)
(* (src/components/PreviewModal.tsx).  App mounts the modal only while a   *)
(* preview is open, so its state starts from the useState values each time *)
(* it opens.                                                               *)
(*   useAiFeatures, photoOption, aiVisualStyle   the three useState values *)
(*   exported   what the last generatePptx of the open modal did: the      *)
(*              settings it started with, its generateContextualImage and  *)
(*              editImage calls, and the image placed for each photo       *)
(***************************************************************************)
PhotoOptions == {"original", "enhance", "removeBg"}
\* the first three of the thirteen options of the 'AI Visual Style' select
VisualStyles == {"minimalist", "corporate", "artistic"}

NotExported == [t |-> "none"]

\* useState(false), useState('minimalist'), useState('original')
useState ==
    /\ useAiFeatures = FALSE
    /\ photoOption = "original"
    /\ aiVisualStyle = "minimalist"
    /\ exported = NotExported

\* the prompt processImage builds for the photo option
editPrompt(option) ==
    IF option = "enhance" THEN "Auto-enhance this photo"
    ELSE IF option = "removeBg" THEN "Remove the background from this photo"
    ELSE ""

\* what editImage resolves with: an image other than the one it was given
editedImage(base64Image, prompt) == [t |-> "edited", source |-> base64Image, prompt |-> prompt]

\* processImage(base64Image) under the settings of the render that started
\* the export; rejected tells whether editImage rejects.  edit is "none" when
\* editImage is not called.
processImage(base64Image, useAi, option, rejected) ==
    IF ~useAi \/ option = "original" \/ ~truthy(base64Image) \/ editPrompt(option) = ""
    THEN [image |-> base64Image, edit |-> "none"]
    ELSE IF rejected THEN [image |-> base64Image, edit |-> "failed"]
    ELSE [image |-> editedImage(base64Image, editPrompt(option)), edit |-> "done"]

\* slides.filter(slide => slide.originalLayout.generativeIconPrompt), by position
iconSlides(seq) ==
    SelectSeq([i \in 1..Len(seq) |-> i],
              LAMBDA i : truthy(seq[i].originalLayout.generativeIconPrompt))

\* the images generatePptx gives to processImage for one slide: data.image of
\* an 'imageLeftTextRight' slide when truthy, the first four of data.images
\* of a 'photoGrid' slide
imagesOf(slide) ==
    IF slide.layout = "imageLeftTextRight" /\ "image" \in DOMAIN slide.data
       /\ truthy(slide.data.image)
    THEN <<slide.data.image>>
    ELSE IF slide.layout = "photoGrid" /\ "images" \in DOMAIN slide.data
    THEN SubSeq(slide.data.images, 1,
                IF Len(slide.data.images) < 4 THEN Len(slide.data.images) ELSE 4)
    ELSE <<>>

\* every processImage call of an export, in slide order
imageJobs(seq) ==
    Flatten([i \in 1..Len(seq) |->
                [k \in 1..Len(imagesOf(seq[i])) |->
                    [slide |-> i, image |-> imagesOf(seq[i])[k]]]])

\* the positions of the jobs for which processImage calls editImage
editJobs(jobs, useAi, option) ==
    {k \in 1..Len(jobs) : processImage(jobs[k].image, useAi, option, FALSE).edit # "none"}

\* the export of generatePptx under the settings it started with.  rejectedIcons
\* and rejectedEdits are the generateContextualImage and editImage calls that
\* reject; generatedIcons is keyed by slide id.
exportOf(seq, useAi, option, style, rejectedIcons, rejectedEdits) ==
    LET icons(wanted) ==
            [k \in 1..Len(wanted) |->
                [slide |-> wanted[k],
                 prompt |-> seq[wanted[k]].originalLayout.generativeIconPrompt,
                 style |-> style,
                 generated |-> k \notin rejectedIcons]]
        images(jobs) ==
            [k \in 1..Len(jobs) |->
                [slide |-> jobs[k].slide, original |-> jobs[k].image,
                 processed |-> processImage(jobs[k].image, useAi, option, k \in rejectedEdits)]]
        withIcons(made) ==
            {i \in 1..Len(seq) :
                useAi /\ \E k \in 1..Len(made) : made[k].generated /\ seq[made[k].slide].id = seq[i].id}
        record(made, placed) ==
            [t |-> "done", useAiFeatures |-> useAi, photoOption |-> option, aiVisualStyle |-> style,
             icons |-> made, withIcon |-> withIcons(made), images |-> placed,
             slides |-> Len(seq)]
    IN record(icons(IF useAi THEN iconSlides(seq) ELSE <<>>), images(imageJobs(seq)))

\* the result of a call not made yet
NotCalled == [t |-> "notCalled"]

(***************************************************************************)
(* Inputs: the templates the model runs on and, for each of their fields,  *)
(* the values a saved report or an edit holds for it.                      *)
(***************************************************************************)
Field(id, label, type, columns) == [id |-> id, label |-> label, type |-> type, columns |-> columns]
Section(id, title, fields) == [id |-> id, title |-> title, fields |-> fields]
Template(key, title, sections) ==
    [key |-> key, name |-> <<"T", "e", "m", "p", "l", "a", "t", "e", " ">> \o key, title |-> title,
     sections |-> sections]

\* the image reference number i
Img(i) == Str(<<"i", "m", "g">> \o NatToStr(i))
Imgs(a, b) == [i \in 1..(b - a + 1) |-> Img(a + i - 1)]

Row2(k1, v1, k2, v2) == Obj(<<k1, k2>>, <<v1, v2>>)

\* ---- template 'tiers': one table whose rows exercise the Column Accessor
TiersTemplate ==
    Template(<<"t","i","e","r","s">>, <<"T","i","e","r","s"," ","R","e","p","o","r","t">>,
        << Section(<<"d","a","t","a">>, <<"F","i","n","a","n","c","i","a","l"," ","D","a","t","a">>,
              << Field(<<"l","e","d","g","e","r">>, <<"L","e","d","g","e","r">>, "table", Columns(<<<<"I","t","e","m">>, <<"A","m","o","u","n","t">>>>)) >>) >>)

TiersRows ==
    { Row2(<<"I","t","e","m">>, Str(<<"R","e","n","t">>), <<"A","m","o","u","n","t">>, Whole(10)),
      Row2(<<"A","m","o","u","n","t">>, Str(<<"$","1",",","2","0","0">>), <<"I","t","e","m">>, Str(<<"T","i","t","h","e">>)),
      Row2(<<"i","t","e","m">>, Str(<<"F","u","e","l">>), <<"A","M","O","U","N","T">>, Whole(5)),
      Row2(<<"c","o","l","1">>, Str(<<"X">>), <<"c","o","l","2">>, Whole(5)),
      Row2(<<"c","o","l","2">>, Whole(7), <<"c","o","l","1">>, Str(<<"Y">>)),
      Obj(<<<<"p","h","o","t","o","s">>, <<"c","o","l","1">>, <<"t","o","o","l","t","i","p","s">>, <<"c","o","l","2">>>>,
          <<Arr(<<Img(1)>>), Str(<<"Z">>), Obj(<<<<"c","o","l","1">>>>, <<Str(<<"t","i","p">>)>>), Whole(8)>>),
      Obj(<<<<"A","M","O","U","N","T">>, <<"a","m","o","u","n","t">>, <<"I","t","e","m">>>>, <<Whole(1), Whole(2), Str(<<"D","u","p">>)>>),
      Obj(<<<<"I","T","E","M">>, <<"a","m","o","u","n","t">>, <<"I","t","e","m">>>>, <<Str(<<"u","p">>), Null, Str(<<"E","x","a","c","t">>)>>),
      Obj(<<<<"c","o","l","1">>>>, <<Str(<<"S","o","l","o">>)>>),
      Obj(<<<<"I","t","e","m">>, <<"A","m","o","u","n","t">>>>, <<Null, Undefined>>),
      Obj(<<>>, <<>>),
      Whole(5),
      Str(<<"a","b">>),
      Arr(<<Str(<<"P">>), Whole(3)>>) }

TiersTables ==
    {Undefined, Null, Str(<<"o","o","p","s">>), Arr(<<>>)}
    \cup {Arr(<<r>>) : r \in TiersRows \cup {Null, Undefined}}
    \cup {Arr(<<Row2(<<"I","t","e","m">>, Str(<<"R","e","n","t">>), <<"A","m","o","u","n","t">>, Whole(10)), r>>) :
             r \in {Row2(<<"c","o","l","2">>, Whole(7), <<"c","o","l","1">>, Str(<<"Y">>)),
                    Obj(<<<<"A","M","O","U","N","T">>, <<"a","m","o","u","n","t">>, <<"I","t","e","m">>>>, <<Whole(1), Whole(2), Str(<<"D","u","p">>)>>),
                    Null}}

TiersScenario == [template |-> TiersTemplate, values |-> << <<TiersTables>> >>]

\* ---- template 'gallery': a photo collection and a table with row photos
GalleryTemplate ==
    Template(<<"g","a","l","l","e","r","y">>, <<"G","a","l","l","e","r","y"," ","R","e","p","o","r","t">>,
        << Section(<<"e","v","e","n","t","s">>, <<"O","u","t","r","e","a","c","h"," ","E","v","e","n","t","s">>,
              << Field(<<"p","i","c","s">>, <<"E","v","e","n","t"," ","P","h","o","t","o","s">>, "photos", NoColumns),
                 Field(<<"v","i","s","i","t","s">>, <<>>, "table", Columns(<<<<"P","l","a","c","e">>>>)) >>) >>)

VisitRow(place, photos) == Obj(<<<<"P","l","a","c","e">>, <<"p","h","o","t","o","s">>>>, <<Str(place), photos>>)

GalleryPics ==
    {Undefined, Str(<<"i","m","g","1">>)} \cup {Arr(Imgs(1, n)) : n \in 0..MaxPhotos}

GalleryVisits ==
    {Undefined}
    \cup {Arr(<<VisitRow(<<"N","o","r","t","h">>, Arr(Imgs(1, n \div 2))),
                VisitRow(<<"S","o","u","t","h">>, Arr(Imgs(n \div 2 + 1, n)))>>) : n \in 0..MaxPhotos}
    \cup {Arr(<<VisitRow(<<"N","o","r","t","h">>, Str(<<"i","m","g","1">>)),
                Obj(<<<<"P","l","a","c","e">>>>, <<Str(<<"S","o","u","t","h">>)>>),
                VisitRow(<<"E","a","s","t">>, Arr(<<Str(<<>>), Img(2), Null, Img(3)>>))>>)}

GalleryScenario == [template |-> GalleryTemplate, values |-> << <<GalleryPics, GalleryVisits>> >>]

\* ---- template 'kpi': MaxKpiTables tables of one section, each of which can
\* hold a total row; the reserved sections hold total rows too
TotalRowTable(v) ==
    Arr(<<Row2(<<"I","t","e","m">>, Str(<<"R","e","n","t">>), <<"A","m","o","u","n","t">>, Whole(0)),
          Row2(<<"I","t","e","m">>, Str(<<"G","r","a","n","d"," ","T","o","t","a","l">>), <<"A","m","o","u","n","t">>, v)>>)
PlainTable == Arr(<<Row2(<<"I","t","e","m">>, Str(<<"R","e","n","t">>), <<"A","m","o","u","n","t">>, Whole(0))>>)

KpiTemplate ==
    Template(<<"k","p","i">>, <<"T","r","e","a","s","u","r","y"," ","R","e","p","o","r","t">>,
        << Section(s_header, <<"H","e","a","d","e","r">>,
              << Field(<<"h">>, <<"H","e","a","d","e","r"," ","t","o","t","a","l","s">>, "table", Columns(<<<<"I","t","e","m">>, <<"A","m","o","u","n","t">>>>)) >>),
           Section(<<"f","i","n">>, <<"T","r","e","a","s","u","r","y">>,
              [i \in 1..MaxKpiTables |->
                  Field(<<"t">> \o NatToStr(i), <<"T">> \o NatToStr(i), "table",
                        Columns(<<<<"I","t","e","m">>, <<"A","m","o","u","n","t">>>>))]),
           Section(s_signatures, <<"S","i","g","n","a","t","u","r","e","s">>,
              << Field(<<"g">>, <<"S","i","g","n","e","d"," ","t","o","t","a","l","s">>, "table", Columns(<<<<"I","t","e","m">>, <<"A","m","o","u","n","t">>>>)) >>) >>)

KpiScenario ==
    [template |-> KpiTemplate,
     values |-> << <<{Undefined, TotalRowTable(Whole(9))}>>,
                   [i \in 1..MaxKpiTables |->
                       {PlainTable, TotalRowTable(Whole(100 * i))}
                       \cup (IF i = 1 THEN {TotalRowTable(Str(<<"n","/","a">>))} ELSE {})],
                   <<{TotalRowTable(Whole(9))}>> >>]

\* ---- template 'order': several sections with fields of every kind
OrderTemplate ==
    Template(<<"o","r","d","e","r">>, <<"Q","u","a","r","t","e","r","l","y"," ","R","e","p","o","r","t">>,
        << Section(s_header, <<"H","e","a","d","e","r">>,
              << Field(s_quarter, <<"Q","u","a","r","t","e","r">>, "text", NoColumns),
                 Field(<<"l","i","s","t">>, <<"A","g","e","n","d","a">>, "bullet", NoColumns) >>),
           Section(<<"a","l","p","h","a">>, <<"M","e","m","b","e","r","s","h","i","p">>,
              << Field(<<"n","o","t","e">>, <<"N","o","t","e">>, "textarea", NoColumns),
                 Field(<<"t","a">>, <<"M","e","m","b","e","r","s">>, "table", Columns(<<<<"G","r","o","u","p">>, <<"C","o","u","n","t">>>>)),
                 Field(<<"g","o","a","l","s">>, <<"G","o","a","l","s">>, "bullet", NoColumns) >>),
           Section(<<"b","e","t","a">>, <<"Y","o","u","t","h"," ","P","r","o","g","r","a","m","s">>,
              << Field(<<"p","p">>, <<>>, "photos", NoColumns),
                 Field(<<"t","b">>, <<"C","a","m","p","s">>, "table", Columns(<<<<"C","a","m","p">>, <<"C","o","u","n","t">>>>)) >>),
           Section(s_signatures, <<"S","i","g","n","a","t","u","r","e","s">>,
              << Field(<<"b","y">>, <<"S","i","g","n","e","d"," ","b","y">>, "text", NoColumns) >>) >>)

OrderScenario ==
    [template |-> OrderTemplate,
     values |-> << <<{Undefined, Str(<<"Q","1"," ","2","0","2","5">>)}, {Arr(<<Str(<<"o","p","e","n">>)>>)}>>,
                   <<{Str(<<>>), Str(<<"f","i","n","e">>)},
                     {Undefined,
                      Arr(<<Row2(<<"G","r","o","u","p">>, Str(<<"A","d","u","l","t","s">>), <<"C","o","u","n","t">>, Whole(40)),
                            Row2(<<"G","r","o","u","p">>, Str(<<"T","o","t","a","l">>), <<"C","o","u","n","t">>, Whole(40))>>)},
                     {Arr(<<Str(<<>>)>>), Arr(<<Str(<<"g","r","o","w">>), Str(<<>>), Str(<<"s","e","r","v","e">>)>>)}>>,
                   <<{Arr(<<>>), Arr(Imgs(1, 5))},
                     {Arr(<<>>),
                      Arr(<<Row2(<<"C","a","m","p">>, Str(<<"N","e","t"," ","S","u","r","p","l","u","s">>), <<"C","o","u","n","t">>, Str(<<"(","3",")">>))>>)}>>,
                   <<{Str(<<"E","l","d","e","r">>)}>> >>]

\* ---- template 'text-summary': section ids and a key made of the fragments
\* the slide ids are built from
ClashTemplate ==
    Template(<<"t","e","x","t","-","s","u","m","m","a","r","y">>, <<"C","l","a","s","h"," ","R","e","p","o","r","t">>,
        << Section(<<"t","i","t","l","e">>, <<"T","i","t","l","e">>,
              << Field(<<"t">>, <<"T","o","p","i","c">>, "text", NoColumns) >>),
           Section(<<"a">>, <<"A","c","t","i","v","i","t","i","e","s">>,
              << Field(<<"t","b","l">>, <<"T","r","i","p","s">>, "table", Columns(<<<<"T","r","i","p">>>>)) >>),
           Section(<<"a","-","t","a","b","l","e">>, <<"A","l","b","u","m">>,
              << Field(<<"p","h">>, <<"A","l","b","u","m">>, "photos", NoColumns) >>) >>)

ClashScenario ==
    [template |-> ClashTemplate,
     values |-> << <<{Undefined, Str(<<"h","e","l","l","o">>)}>>,
                   <<{Undefined, Arr(<<Obj(<<<<"T","r","i","p">>, <<"p","h","o","t","o","s">>>>,
                                         <<Str(<<"L","a","k","e">>), Arr(<<Img(1)>>)>>)>>)}>>,
                   <<{Undefined, Arr(<<Img(2)>>)}>> >>]

\* ---- template 'chart': one table from which a chart is derived
ChartTemplate ==
    Template(<<"c","h","a","r","t">>, <<"C","h","a","r","t"," ","R","e","p","o","r","t">>,
        << Section(<<"f","i","n">>, <<"R","e","c","e","i","p","t","s">>,
              << Field(<<"e","x","p">>, <<"E","x","p","e","n","s","e","s">>, "table", Columns(<<<<"I","t","e","m">>, <<"A","m","o","u","n","t">>>>)) >>) >>)

ChartRows ==
    { Row2(<<"I","t","e","m">>, Str(<<"R","e","n","t">>), <<"A","m","o","u","n","t">>, Whole(0)),
      Row2(<<"I","t","e","m">>, Str(<<"F","o","o","d">>), <<"A","m","o","u","n","t">>, Str(<<"$","1",",","2","0","0">>)),
      Row2(<<"I","t","e","m">>, Str(<<"F","u","e","l">>), <<"A","m","o","u","n","t">>, Str(<<"(","0",".","0","0",")">>)),
      Row2(<<"I","t","e","m">>, Str(<<"T","o","t","a","l">>), <<"A","m","o","u","n","t">>, Whole(100)),
      Row2(<<"I","t","e","m">>, Str(<<"M","i","s","c">>), <<"A","m","o","u","n","t">>, Str(<<"n","/","a">>)),
      Row2(<<"I","t","e","m">>, Str(<<>>), <<"A","m","o","u","n","t">>, Whole(7)) }

ChartTables ==
    {Arr(<<>>)} \cup {Arr(<<r>>) : r \in ChartRows} \cup {Arr(<<r, q>>) : r, q \in ChartRows}

ChartScenario == [template |-> ChartTemplate, values |-> << <<ChartTables>> >>]

\* ---- template 'memo': a small form whose calls are logged
MemoTemplate ==
    Template(<<"m","e","m","o">>, <<"M","e","m","o">>,
        << Section(<<"n","o","t","e","s">>, <<"M","i","s","s","i","o","n"," ","N","o","t","e","s">>,
              << Field(<<"n","o","t","e">>, <<"N","o","t","e">>, "text", NoColumns),
                 Field(<<"s","u","m">>, <<>>, "table", Columns(<<<<"I","t","e","m">>, <<"A","m","o","u","n","t">>>>)) >>) >>)

MemoScenario ==
    [template |-> MemoTemplate,
     values |-> << <<{Str(<<"a">>), Str(<<"b">>)},
                     {Arr(<<Row2(<<"I","t","e","m">>, Str(<<"G","i","f","t">>), <<"A","m","o","u","n","t">>, Whole(3))>>)}>> >>]

\* ---- template 'points': two tables of 1..MaxPoints chartable rows, each
\* closed by a total row
PointsTemplate ==
    Template(<<"p","o","i","n","t","s">>, <<"P","o","i","n","t","s"," ","R","e","p","o","r","t">>,
        << Section(<<"f","i","n">>, <<"D","i","s","b","u","r","s","e","m","e","n","t","s">>,
              << Field(<<"a">>, <<"F","u","n","d"," ","A">>, "table", Columns(<<<<"I","t","e","m">>, <<"A","m","o","u","n","t">>>>)),
                 Field(<<"b">>, <<"F","u","n","d"," ","B">>, "table", Columns(<<<<"I","t","e","m">>, <<"A","m","o","u","n","t">>>>)) >>) >>)

PointsTable(n) ==
    Arr([r \in 1..(n + 1) |->
            IF r <= n
            THEN Row2(<<"I","t","e","m">>, Str(<<"P">> \o NatToStr(r)), <<"A","m","o","u","n","t">>, Whole(r))
            ELSE Row2(<<"I","t","e","m">>, Str(<<"T","o","t","a","l">>), <<"A","m","o","u","n","t">>, Whole(n * n))])

PointsScenario ==
    [template |-> PointsTemplate,
     values |-> << <<{PointsTable(n) : n \in 1..MaxPoints},
                     {PointsTable(n) : n \in (MaxPoints - 2)..MaxPoints}>> >>]

\* ---- template 'offerings': a header section and a financial section with
\* one table
s_financial == <<"f","i","n","a","n","c","i","a","l">>
s_income == <<"i","n","c","o","m","e">>
OfferingsTemplate ==
    Template(<<"o","f","f","e","r","i","n","g","s">>, <<"Q","u","a","r","t","e","r","l","y"," ","O","f","f","e","r","i","n","g","s"," ","R","e","p","o","r","t">>,
        << Section(s_header, <<"H","e","a","d","e","r">>,
              << Field(s_quarter, <<"Q","u","a","r","t","e","r">>, "text", NoColumns),
                 Field(s_preparedBy, <<"P","r","e","p","a","r","e","d"," ","B","y">>, "text", NoColumns) >>),
           Section(s_financial, <<"F","i","n","a","n","c","i","a","l"," ","R","e","p","o","r","t">>,
              << Field(s_income, <<"I","n","c","o","m","e">>, "table", Columns(<<<<"I","t","e","m">>, <<"A","m","o","u","n","t">>>>)) >>) >>)

OfferingsRow == Row2(<<"I","t","e","m">>, Str(<<"O","f","f","e","r","i","n","g","s">>), <<"A","m","o","u","n","t">>, Str(<<"$","1",",","2","0","0">>))
OfferingsTotalRow == Row2(<<"I","t","e","m">>, Str(<<"T","o","t","a","l">>), <<"A","m","o","u","n","t">>, Str(<<"$","1",",","2","0","0">>))

OfferingsScenario ==
    [template |-> OfferingsTemplate,
     values |-> << <<{Str(<<>>), Str(<<"Q","1"," ","2","0","2","5">>)}, {Str(<<>>), Str(<<"J","a","n","e"," ","D","o","e">>)}>>,
                   <<{Arr(<<OfferingsTotalRow>>), Arr(<<OfferingsRow, OfferingsTotalRow>>)}>> >>]

\* ---- template 'mixed': one section whose fields of every kind are declared
\* interleaved; the first table gives a chart and two pages of row photos
MixedTemplate ==
    Template(<<"m","i","x","e","d">>, <<"M","i","x","e","d"," ","R","e","p","o","r","t">>,
        << Section(<<"c","a","m","p">>, <<"C","h","i","l","d","r","e","n"," ","C","a","m","p">>,
              << Field(<<"m","e","m","o">>, <<"M","e","m","o">>, "text", NoColumns),
                 Field(<<"a","l","b","u","m">>, <<"A","l","b","u","m">>, "photos", NoColumns),
                 Field(<<"a","i","m","s">>, <<"A","i","m","s">>, "bullet", NoColumns),
                 Field(<<"t","1">>, <<"C","o","s","t","s">>, "table", Columns(<<<<"I","t","e","m">>, <<"A","m","o","u","n","t">>>>)),
                 Field(<<"p","l","a","n","s">>, <<"P","l","a","n","s">>, "bullet", NoColumns),
                 Field(<<"t","2">>, <<"G","i","f","t","s">>, "table", Columns(<<<<"I","t","e","m">>, <<"A","m","o","u","n","t">>>>)),
                 Field(<<"e","x","t","r","a">>, <<"E","x","t","r","a">>, "photos", NoColumns),
                 Field(<<"d","a","y">>, <<"D","a","y">>, "date", NoColumns) >>) >>)

MixedScenario ==
    [template |-> MixedTemplate,
     values |-> << << {Str(<<"s","u","n","n","y">>)},
                      {Arr(Imgs(1, 5))},
                      {Arr(<<Str(<<"p","l","a","y">>)>>)},
                      {Arr(<<Obj(<<<<"I","t","e","m">>, <<"A","m","o","u","n","t">>, s_photos>>, <<Str(<<"F","o","o","d">>), Whole(3), Arr(Imgs(1, 3))>>),
                             Obj(<<<<"I","t","e","m">>, <<"A","m","o","u","n","t">>, s_photos>>, <<Str(<<"T","e","n","t","s">>), Whole(4), Arr(Imgs(4, 5))>>)>>)},
                      {Arr(<<Str(<<"r","e","s","t">>)>>)},
                      {Arr(<<Row2(<<"I","t","e","m">>, Str(<<"B","o","o","k","s">>), <<"A","m","o","u","n","t">>, Whole(2))>>)},
                      {Arr(Imgs(6, 6))},
                      {Str(<<"2","0","2","5","-","0","7","-","0","1">>)} >> >>]

\* ---- template 'ledger': a table of four columns without a label, a table
\* without declared columns and a table of one column
LedgerTemplate ==
    Template(<<"l","e","d","g","e","r">>, <<"L","e","d","g","e","r"," ","R","e","p","o","r","t">>,
        << Section(<<"b","o","o","k","s">>, <<"T","r","e","a","s","u","r","y"," ","B","o","o","k","s">>,
              << Field(<<"t">>, <<>>, "table", Columns(<<<<"I","t","e","m">>, <<"N","o","t","e">>, <<"B","u","d","g","e","t">>, <<"A","c","t","u","a","l">>>>)),
                 Field(<<"r","a","w">>, <<"R","a","w">>, "table", NoColumns),
                 Field(<<"o","n","e">>, <<"C","o","u","n","t","s">>, "table", Columns(<<<<"C","o","u","n","t">>>>)) >>) >>)

LedgerRow(item, note, budget, actual) ==
    Obj(<<<<"I","t","e","m">>, <<"N","o","t","e">>, <<"B","u","d","g","e","t">>, <<"A","c","t","u","a","l">>>>, <<item, note, budget, actual>>)

LedgerTables ==
    { Arr(<<>>),
      Arr(<<LedgerRow(Str(<<"R","e","n","t">>), Str(<<"n","/","a">>), Str(<<"$","1","0">>), Whole(12)),
            LedgerRow(Str(<<"T","o","t","a","l"," ","D","e","f","i","c","i","t">>), Str(<<"x">>), Str(<<>>), Str(<<"(","2",")">>))>>),
      Arr(<<LedgerRow(Str(<<"H","a","l","l">>), Str(<<"-">>), Str(<<"t","b","d">>), Str(<<"?">>)),
            LedgerRow(Str(<<"Y","a","r","d">>), Str(<<"7">>), Whole(3), Whole(4))>>),
      Arr(<<LedgerRow(Str(<<"H","a","l","l">>), Str(<<"x">>), Str(<<"y">>), Str(<<"z">>))>>),
      Arr(<<LedgerRow(Str(<<"T","o","t","a","l">>), Str(<<>>), Str(<<"n","/","a">>), Str(<<"n","o","n","e">>)),
            LedgerRow(Str(<<"G","r","a","n","d"," ","T","o","t","a","l">>), Str(<<"1">>), Whole(2), Whole(3))>>),
      Arr(<<LedgerRow(Str(<<"H","a","l","l">>), Str(<<"x">>), Str(<<"5">>), Null),
            LedgerRow(Str(<<"T","o","t","a","l">>), Str(<<"9">>), Str(<<"5">>), Null)>>),
      Arr(<<LedgerRow(Str(<<"S","u","b","t","o","t","a","l">>), Str(<<"x">>), Whole(6), Whole(1)),
            LedgerRow(Str(<<"N","e","t"," ","S","u","r","p","l","u","s">>), Str(<<"y">>), Whole(8), Whole(2)),
            LedgerRow(Str(<<"R","e","n","t">>), Str(<<"z">>), Whole(0), Whole(3))>>) }

LedgerScenario ==
    [template |-> LedgerTemplate,
     values |-> << <<LedgerTables,
                     {Undefined, Arr(<<Row2(<<"I","t","e","m">>, Str(<<"T","o","t","a","l">>), <<"A","m","o","u","n","t">>, Whole(5))>>)},
                     {Undefined, Arr(<<Obj(<<<<"C","o","u","n","t">>>>, <<Whole(5)>>), Obj(<<<<"C","o","u","n","t">>>>, <<Whole(6)>>)>>)}>> >>]

\* ---- template 'cover': a header section with both aliases of the quarter
\* and of the author
CoverTemplate ==
    Template(<<"c","o","v","e","r">>, <<"C","o","v","e","r"," ","R","e","p","o","r","t">>,
        << Section(s_header, <<"H","e","a","d","e","r">>,
              << Field(s_quarter, <<"Q","u","a","r","t","e","r">>, "text", NoColumns),
                 Field(s_reportingQuarter, <<"R","e","p","o","r","t","i","n","g"," ","Q","u","a","r","t","e","r">>, "text", NoColumns),
                 Field(s_preparedBy, <<"P","r","e","p","a","r","e","d"," ","B","y">>, "text", NoColumns),
                 Field(s_reportingLeader, <<"R","e","p","o","r","t","i","n","g"," ","L","e","a","d","e","r">>, "text", NoColumns) >>) >>)

CoverScenario ==
    [template |-> CoverTemplate,
     values |-> << <<{Str(<<>>), Str(<<"Q","1">>)}, {Str(<<>>), Str(<<"Q","2">>)},
                     {Str(<<>>), Str(<<"A","n","n">>)}, {Str(<<>>), Str(<<"B","o","b">>)}>> >>]

\* ---- template 'notes': scalar fields and a bullet list with empty, blank
\* and absent values
NotesTemplate ==
    Template(<<"n","o","t","e","s">>, <<"N","o","t","e","s"," ","R","e","p","o","r","t">>,
        << Section(<<"v","i","s","i","t">>, <<"V","i","s","i","t","a","t","i","o","n">>,
              << Field(<<"n","a","m","e">>, <<"N","a","m","e">>, "text", NoColumns),
                 Field(<<"i","t","e","m","s">>, <<"I","t","e","m","s">>, "bullet", NoColumns),
                 Field(<<"c","o","u","n","t">>, <<"C","o","u","n","t">>, "number", NoColumns),
                 Field(<<"r","e","m","a","r","k","s">>, <<"R","e","m","a","r","k","s">>, "textarea", NoColumns) >>) >>)

NotesScenario ==
    [template |-> NotesTemplate,
     values |-> << <<{Str(<<>>), Str(<<"A","n","n">>)},
                     {Arr(<<>>), Arr(<<Str(<<>>)>>), Str(<<"x">>),
                      Arr(<<Str(<<"a">>), Str(<<>>), Str(<<"b">>)>>)},
                     {Str(<<"0">>)},
                     {Str(<<>>), Str(<<" ">>), Str(<<"o","k">>)}>> >>]

\* ---- template 'album': photos that the export gives to processImage and a
\* bullet list whose slide carries an icon prompt
AlbumTemplate ==
    Template(<<"a","l","b","u","m">>, <<"A","l","b","u","m">>,
        << Section(<<"c","a","m","p">>, <<"Y","o","u","t","h"," ","C","a","m","p">>,
              << Field(<<"p","i","c","s">>, <<"C","a","m","p"," ","P","h","o","t","o","s">>, "photos", NoColumns),
                 Field(<<"n","o","t","e","s">>, <<"N","o","t","e","s">>, "bullet", NoColumns) >>) >>)

AlbumScenario ==
    [template |-> AlbumTemplate,
     values |-> << <<{Undefined, Arr(<<>>), Arr(<<Str(<<>>), Img(1), Null>>), Arr(Imgs(1, MaxAlbum))},
                     {Undefined, Arr(<<Str(<<"a">>)>>)}>> >>]

Scenarios == {MemoScenario, TiersScenario, GalleryScenario, KpiScenario, OrderScenario, ClashScenario,
              ChartScenario, PointsScenario, OfferingsScenario, MixedScenario, LedgerScenario,
              CoverScenario, NotesScenario, AlbumScenario}
Templates == {sc.template : sc \in Scenarios}
ScenarioOf(tpl) == CHOOSE sc \in Scenarios : sc.template = tpl

\* every assignment of one of its values to each field of a section
RECURSIVE fieldMaps(_, _)
fieldMaps(fields, valueSets) ==
    IF fields = <<>> THEN {<<>>}
    ELSE {(fields[1].id :> v) @@ m : v \in valueSets[1],
                                     m \in fieldMaps(Tail(fields), Tail(valueSets))}

RECURSIVE sectionMaps(_, _)
sectionMaps(sections, values) ==
    IF sections = <<>> THEN {<<>>}
    ELSE {(sections[1].id :> Map(d)) @@ m : d \in fieldMaps(sections[1].fields, values[1]),
                                            m \in sectionMaps(Tail(sections), Tail(values))}

\* form data that is not a complete record of section records
MalformedReports(tpl) ==
    {Undefined, Null, Str(<<"o","o","p","s">>), EmptyMap,
     Map(tpl.sections[1].id :> Str(<<"o","o","p","s">>))}

\* the saved reports of a template (localStorage 'saved_reports')
SavedReports(tpl) ==
    {Map(m) : m \in sectionMaps(tpl.sections, ScenarioOf(tpl).values)}
    \cup MalformedReports(tpl)

LoggedTemplates == {MemoTemplate}

Init ==
    /\ template \in Templates
    /\ formData = EmptyMap
    /\ pc = "idle"
    /\ slides = <<>>
    /\ origin = <<>>
    /\ discovered = <<>>
    /\ calls = <<>>
    /\ charts = <<>>
    /\ useState
    /\ input = Undefined
    /\ output = NotCalled

\* App.loadReport
loadReport ==
    /\ pc = "idle"
    /\ \E report \in SavedReports(template) : formData' = report
    /\ UNCHANGED <<template, pc, slides, origin, discovered, calls, charts, input, output, aiState, exported>>

\* the values an edit can give to each field of section s
InputValues(s, f) == ScenarioOf(template).values[s][f]

\* App.handleInputChange: {...prev, [sectionId]: {...prev[sectionId], [fieldId]: value}}
handleInputChange ==
    /\ pc = "idle"
    /\ formData.t = "map"
    /\ \E s \in 1..Len(template.sections) :
         LET section == template.sections[s]
             old == Get(formData, section.id)
         IN /\ old.t \in {"map", "undefined"}
            /\ \E f \in 1..Len(section.fields) : \E value \in InputValues(s, f) :
                 formData' =
                    Map((section.id :> Map((section.fields[f].id :> value)
                                           @@ (IF old.t = "map" THEN old.v ELSE <<>>)))
                        @@ formData.v)
    /\ UNCHANGED <<template, pc, slides, origin, discovered, calls, charts, input, output, aiState, exported>>

\* getResolvedSlides, called by the memo of PreviewModal when it opens
getResolvedSlides ==
    /\ pc = "idle"
    /\ \E resolver \in {SlidePlanResolver(template, formData)} :
       \E threw \in {resolveThrows(resolver)} :
       \E made \in {IF threw THEN <<>> ELSE resolve(resolver)} :
       \E returned \in {[i \in 1..Len(made) |-> made[i].slide]} :
          /\ pc' = IF threw THEN "threw" ELSE "resolved"
          /\ slides' = returned
          /\ origin' = [i \in 1..Len(made) |-> made[i].src]
          /\ discovered' = IF threw THEN <<>> ELSE collectKpis(resolver)
          /\ calls' = IF template \in LoggedTemplates /\ Len(calls) < MaxCalls
                      THEN Append(calls, [template |-> template, formData |-> formData,
                                          threw |-> threw, slides |-> returned])
                      ELSE calls
    /\ UNCHANGED <<template, formData, charts, input, output, aiState, exported>>

\* a toggle that leaves the photo option and the visual style as they are
handleAiToggleKeepsOptions ==
    /\ pc = "resolved"
    /\ \E enabled \in BOOLEAN :
          /\ enabled # useAiFeatures
          /\ useAiFeatures' = enabled
    /\ UNCHANGED <<template, formData, pc, slides, origin, discovered, calls, charts, input, output,
                   photoOption, aiVisualStyle, exported>>

\* PreviewModal.handleAiToggle, from the 'Enable AI Features' checkbox
handleAiToggle ==
    /\ pc = "resolved"
    /\ \E enabled \in BOOLEAN :
          /\ enabled # useAiFeatures
          /\ useAiFeatures' = enabled
          /\ photoOption' = IF ~enabled THEN "original" ELSE photoOption
          /\ aiVisualStyle' = IF ~enabled THEN "minimalist" ELSE aiVisualStyle
    /\ UNCHANGED <<template, formData, pc, slides, origin, discovered, calls, charts, input, output, exported>>

\* the radio is disabled: !useAiFeatures && photoOption !== 'original' for
\* 'original', !useAiFeatures for the other two
photoOptionDisabled(option) ==
    IF option = "original" THEN ~useAiFeatures /\ photoOption # "original"
    ELSE ~useAiFeatures

\* setPhotoOption, from a radio of the 'Photo Options' group that is enabled
\* and not yet checked
setPhotoOption ==
    /\ pc = "resolved"
    /\ \E option \in PhotoOptions :
          /\ ~photoOptionDisabled(option)
          /\ option # photoOption
          /\ photoOption' = option
    /\ UNCHANGED <<template, formData, pc, slides, origin, discovered, calls, charts, input, output,
                   useAiFeatures, aiVisualStyle, exported>>

\* setAiVisualStyle, from the 'AI Visual Style' select (disabled={!useAiFeatures})
setAiVisualStyle ==
    /\ pc = "resolved"
    /\ useAiFeatures
    /\ \E style \in VisualStyles :
          /\ style # aiVisualStyle
          /\ aiVisualStyle' = style
    /\ UNCHANGED <<template, formData, pc, slides, origin, discovered, calls, charts, input, output,
                   useAiFeatures, photoOption, exported>>

\* PreviewModal.generatePptx.  With AI features on, an icon is requested for
\* every slide that carries a prompt, and a rejected request is skipped.
\* Every image of the slides goes through processImage.  Every chart slide of
\* the memo is rendered by a ChartSlide of its own, whose effect runs once; an
\* error raised in the effect does not stop the export.
generatePptx ==
    /\ pc = "resolved"
    /\ \E ctx \in BOOLEAN :
          charts' = [k \in 1..Len(chartFullSlides(slides)) |->
                        ChartSlide(chartFullSlides(slides)[k], ctx)]
    /\ \E rejectedIcons \in SUBSET (IF useAiFeatures THEN 1..Len(iconSlides(slides)) ELSE {}) :
       \E rejectedEdits \in SUBSET editJobs(imageJobs(slides), useAiFeatures, photoOption) :
          exported' = exportOf(slides, useAiFeatures, photoOption, aiVisualStyle,
                               rejectedIcons, rejectedEdits)
    /\ UNCHANGED <<template, formData, pc, slides, origin, discovered, calls, input, output, aiState>>

\* PreviewModal closes and is unmounted: libsReady is reset, the memo is []
\* again and the AI settings are the useState values when it opens next
onClose ==
    /\ pc = "resolved"
    /\ pc' = "idle"
    /\ slides' = <<>>
    /\ origin' = <<>>
    /\ discovered' = <<>>
    /\ charts' = <<>>
    /\ useAiFeatures' = FALSE
    /\ photoOption' = "original"
    /\ aiVisualStyle' = "minimalist"
    /\ exported' = NotExported
    /\ UNCHANGED <<template, formData, calls, input, output>>

Next == loadReport \/ handleInputChange \/ getResolvedSlides \/ generatePptx \/ onClose

Spec == Init /\ [][Next]_vars

(***************************************************************************)
(* The export modal on the 'album' template, with its AI settings          *)
(***************************************************************************)
ExportInit ==
    /\ template = AlbumTemplate
    /\ formData = EmptyMap
    /\ pc = "idle"
    /\ slides = <<>>
    /\ origin = <<>>
    /\ discovered = <<>>
    /\ calls = <<>>
    /\ charts = <<>>
    /\ useState
    /\ input = Undefined
    /\ output = NotCalled

ExportNext ==
    \/ loadReport \/ handleInputChange \/ getResolvedSlides
    \/ handleAiToggle \/ setPhotoOption \/ setAiVisualStyle
    \/ generatePptx \/ onClose

ExportSpec == ExportInit /\ [][ExportNext]_vars

(***************************************************************************)
(* normalizeNumber on its own: every argument of NormalizeInputs, one call *)
(***************************************************************************)
NormalizeChars == <<"(", ")", "$", ",", " ", "\n", "-", "+", ".", "5", "0", "a">>

\* the strings over NormalizeChars of length n
RECURSIVE stringsOfLen(_)
stringsOfLen(n) ==
    IF n = 0 THEN {<<>>}
    ELSE {<<NormalizeChars[c]>> \o s : c \in DOMAIN NormalizeChars, s \in stringsOfLen(n - 1)}

NormalizeInputs ==
    {Str(s) : s \in UNION {stringsOfLen(n) : n \in 0..MaxLen}}
    \cup {Null, Undefined, NaN, Whole(500), Num(-12345, 1), Num(5, 2),
          Str(<<"(","1",",","2","3","4",".","5","0",")">>), Str(<<"$","5","0","0">>),
          Str(<<" ","$"," ","1",",","0","0","0",".","2","5"," ">>), Str(<<"n","/","a">>),
          Str(<<"1","2","a","b","c">>), Str(<<"(","-","5","0","0",")">>),
          Str(<<"(","5","0","0",")">>), Str(<<"(","+","5","0","0",")">>),
          Str(<<"-","5","0","0">>), Str(<<"+","5","0","0">>), Str(<<"(","-","5","0","0">>),
          Str(<<" ","(","$","-","1",",","0","0","0",")"," ">>),
          Str(<<"(","5","\n",")">>), Str(<<"(","\n","-","5",")">>),
          Arr(<<>>), Arr(<<Whole(5)>>), Obj(<<>>, <<>>)}

NormalizeInit ==
    /\ template = MemoTemplate
    /\ formData = EmptyMap
    /\ pc = "idle"
    /\ slides = <<>>
    /\ origin = <<>>
    /\ discovered = <<>>
    /\ calls = <<>>
    /\ charts = <<>>
    /\ useState
    /\ input \in NormalizeInputs
    /\ output = NotCalled

\* one call of normalizeNumber
callNormalizeNumber ==
    /\ output = NotCalled
    /\ output' = normalizeNumber(input)
    /\ UNCHANGED <<template, formData, pc, slides, origin, discovered, calls, charts, input, aiState, exported>>

NormalizeNext == callNormalizeNumber

NormalizeSpec == NormalizeInit /\ [][NormalizeNext]_vars

(***************************************************************************)
(* getIconPromptForSection on its own: every title of TitleInputs, one     *)
(* call                                                                    *)
(***************************************************************************)
TitleWords ==
    <<<<"F","i","n","a","n","c","i","a","l">>,
      <<"T","r","e","a","s","u","r","y">>,
      <<"R","e","c","e","i","p","t","s">>,
      <<"D","i","s","b","u","r","s","e","m","e","n","t","s">>,
      <<"M","e","m","b","e","r","s","h","i","p">>,
      <<"A","t","t","e","n","d","a","n","c","e">>,
      <<"P","r","o","g","r","a","m","s">>,
      <<"A","c","t","i","v","i","t","i","e","s">>,
      <<"M","i","n","i","s","t","r","i","e","s">>,
      <<"Y","o","u","t","h">>,
      <<"C","h","i","l","d","r","e","n">>,
      <<"O","u","t","r","e","a","c","h">>,
      <<"M","i","s","s","i","o","n">>,
      <<"G","e","n","e","r","a","l">>,
      <<"S","t","a","f","f">>,
      <<"M","e","m","b","e","r">>,
      <<"P","r","o","g","r","a","m","m","e">>>>

upperChar(c) ==
    IF \E i \in 1..26 : LowerChars[i] = c
    THEN UpperChars[CHOOSE i \in 1..26 : LowerChars[i] = c]
    ELSE c

\* the titles of n words of TitleWords, separated by one space
RECURSIVE titlesOf(_)
titlesOf(n) ==
    IF n = 1 THEN {TitleWords[w] : w \in DOMAIN TitleWords}
    ELSE {TitleWords[w] \o <<" ">> \o t : w \in DOMAIN TitleWords, t \in titlesOf(n - 1)}

\* each title as written, in lower case and in upper case, and the empty title
TitleInputs ==
    LET written == UNION {titlesOf(n) : n \in 1..MaxWords}
    IN written \cup {toLowerCase(t) : t \in written}
       \cup {[i \in 1..Len(t) |-> upperChar(t[i])] : t \in written} \cup {<<>>}

ClassifyInit ==
    /\ template = MemoTemplate
    /\ formData = EmptyMap
    /\ pc = "idle"
    /\ slides = <<>>
    /\ origin = <<>>
    /\ discovered = <<>>
    /\ calls = <<>>
    /\ charts = <<>>
    /\ useState
    /\ input \in {Str(t) : t \in TitleInputs}
    /\ output = NotCalled

\* one call of getIconPromptForSection on a section with the title
callGetIconPromptForSection ==
    /\ output = NotCalled
    /\ output' = Str(getIconPromptForSection(Section(<<"s">>, input.v, <<>>)))
    /\ UNCHANGED <<template, formData, pc, slides, origin, discovered, calls, charts, input, aiState, exported>>

ClassifyNext == callGetIconPromptForSection

ClassifySpec == ClassifyInit /\ [][ClassifyNext]_vars

(***************************************************************************)
(* The three copies of getColumnValue on their own: every (row, header,    *)
(* headerIndex) of AccessorInputs, one call of each copy                   *)
(***************************************************************************)
RowKeys == <<<<"I","t","e","m">>, <<"i","t","e","m">>, <<"I","T","E","M">>, <<"A","m","o","u","n","t">>, <<"p","h","o","t","o","s">>, <<"t","o","o","l","t","i","p","s">>>>
AccessorHeaders == {<<"I","t","e","m">>, <<"A","m","o","u","n","t">>, <<"P","h","o","t","o","s">>}

\* the sequences of n distinct keys of RowKeys
RECURSIVE keySeqs(_)
keySeqs(n) ==
    IF n = 0 THEN {<<>>}
    ELSE {Append(ks, RowKeys[k]) : ks \in keySeqs(n - 1), k \in DOMAIN RowKeys}
         \ {ks \in {Append(ks, RowKeys[k]) : ks \in keySeqs(n - 1), k \in DOMAIN RowKeys} :
               \E i \in 1..(n - 1) : ks[i] = ks[n]}

\* the value under the i-th key of a row: the text or the number i, or null
cellOf(kind, i) ==
    CASE kind = "text" -> Str(<<"v">> \o NatToStr(i))
      [] kind = "number" -> Whole(i)
      [] OTHER -> Null
rowsOfKeys(n) ==
    {Obj(keys, [i \in 1..n |-> cellOf(kinds[i], i)]) :
        keys \in keySeqs(n), kinds \in [1..n -> {"text", "number", "null"}]}
AccessorRows ==
    UNION {rowsOfKeys(n) : n \in 0..MaxKeys}
    \cup {Arr(<<Str(<<"a">>), Whole(7)>>), Str(<<"o","k">>), Null, Undefined}

AccessorInputs ==
    {[t |-> "args", row |-> row, header |-> header, headerIndex |-> headerIndex] :
        row \in AccessorRows, header \in AccessorHeaders, headerIndex \in 0..MaxKeys}

AccessorInit ==
    /\ template = MemoTemplate
    /\ formData = EmptyMap
    /\ pc = "idle"
    /\ slides = <<>>
    /\ origin = <<>>
    /\ discovered = <<>>
    /\ calls = <<>>
    /\ charts = <<>>
    /\ useState
    /\ input \in AccessorInputs
    /\ output = NotCalled

\* one call of each copy of getColumnValue on the same arguments; on a
\* nullish row row.hasOwnProperty raises a TypeError in each of them
callGetColumnValue ==
    /\ output = NotCalled
    /\ output' =
          IF rowThrows(input.row) THEN [t |-> "threw"]
          ELSE [t |-> "read",
                table |-> tableGetColumnValue(input.row, input.header, input.headerIndex),
                chart |-> chartGetColumnValue(input.row, input.header, input.headerIndex),
                summary |-> summaryGetColumnValue(input.row, input.header, input.headerIndex)]
    /\ UNCHANGED <<template, formData, pc, slides, origin, discovered, calls, charts, input, aiState, exported>>

AccessorNext == callGetColumnValue

AccessorSpec == AccessorInit /\ [][AccessorNext]_vars

(***************************************************************************)
(* Properties                                                              *)
(***************************************************************************)
Resolved == pc = "resolved"

\* the section, field and form value a slide was made from
srcSection(i) == template.sections[origin[i].section]
srcField(i, type) == fieldsOfType(srcSection(i), {type})[origin[i].field + 1]
srcValue(i, type) ==
    Get(sectionDataOf([template |-> template, formData |-> formData], srcSection(i)),
        srcField(i, type).id)

\* the positions of the slides made from field index fi of group `kind` of
\* section s
slidesFrom(kind, s, fi) ==
    {i \in 1..Len(slides) :
        origin[i].kind = kind /\ origin[i].section = s /\ origin[i].field = fi}

C2_NeverThrows == pc # "threw"

\* C3: the resolved sequence is non-empty, starts with the one slide of
\* layout 'title', whose title is the template's display title.
C3_TitleFirst ==
    Resolved =>
       /\ Len(slides) >= 1
       /\ slides[1].layout = "title"
       /\ slides[1].title = template.title
       /\ \A i \in 2..Len(slides) : slides[i].layout # "title"

\* a resolved form without header section that produced further slides
C3_Witness ==
    /\ Resolved
    /\ Get(formData, s_header) = Undefined
    /\ Len(slides) > 1
    /\ slides[1].layout = "title"

\* the table slides, with the field and the stored rows each was made from
TableSlides == {i \in 1..Len(slides) : origin[i].kind = "table"}
declaredHeaders(field) == IF field.columns.t = "undefined" THEN <<>> ELSE field.columns.v

\* the positions of the row's keys that equal header under case folding
foldedKeys(row, header) ==
    {k \in DOMAIN ObjectKeys(row) : toLowerCase(ObjectKeys(row)[k]) = toLowerCase(header)}
\* the value at position headerIndex (0-based) of the row's keys other than
\* 'photos' and 'tooltips', the empty value when there is no such position
positionalValue(row, headerIndex) ==
    LET rest == SelectSeq(ObjectKeys(row), LAMBDA k : k \notin {s_photos, s_tooltips})
    IN IF headerIndex < Len(rest) THEN Get(row, rest[headerIndex + 1]) ELSE Str(<<>>)
\* a value in string form, the empty value as ''
asCell(v) == String(coalesce(v, Str(<<>>)))

\* valueFor with a case-folding tier that applies to exactly one folded key
claimedValueFor(row, header, headerIndex) ==
    IF \E k \in DOMAIN ObjectKeys(row) : ObjectKeys(row)[k] = header THEN Get(row, header)
    ELSE IF Cardinality(foldedKeys(row, header)) = 1
         THEN Get(row, ObjectKeys(row)[CHOOSE k \in foldedKeys(row, header) : TRUE])
         ELSE positionalValue(row, headerIndex)

\* valueFor with a case-folding tier that takes the first folded key
firstFoldedValueFor(row, header, headerIndex) ==
    IF \E k \in DOMAIN ObjectKeys(row) : ObjectKeys(row)[k] = header THEN Get(row, header)
    ELSE IF foldedKeys(row, header) # {}
         THEN Get(row, ObjectKeys(row)[CHOOSE k \in foldedKeys(row, header) :
                                          \A j \in foldedKeys(row, header) : k <= j])
         ELSE positionalValue(row, headerIndex)

ReservedSections ==
    {s \in 1..Len(template.sections) : template.sections[s].id \in {s_header, s_signatures}}

\* the (section position, table index) pairs of the table fields of the
\* non-reserved sections, and the form value of each
TableFields ==
    UNION {{<<s, fi>> : fi \in 0..(Len(fieldsOfType(template.sections[s], {"table"})) - 1)} :
              s \in (1..Len(template.sections)) \ ReservedSections}
tableFieldAt(s, fi) == fieldsOfType(template.sections[s], {"table"})[fi + 1]
tableValueAt(s, fi) ==
    Get(sectionDataOf([template |-> template, formData |-> formData], template.sections[s]),
        tableFieldAt(s, fi).id)
nonEmptyList(v) == v.t = "arr" /\ v.v # <<>>

SectionSlides == {i \in 1..Len(slides) : origin[i].section > 0}
startsWith(s, prefix) == Len(s) >= Len(prefix) /\ SubSeq(s, 1, Len(prefix)) = prefix
reservedLabels ==
    UNION {{template.sections[s].fields[f].label : f \in 1..Len(template.sections[s].fields)} :
              s \in ReservedSections}

\* C6: the slides of an earlier section precede those of a later one, each
\* carrying its section's id; the sections 'header' and 'signatures' give no
\* per-section slide and no KPI; a summary slide is the last slide.
C6_SectionOrder ==
    Resolved =>
       /\ \A i, j \in SectionSlides : origin[i].section < origin[j].section => i < j
       /\ \A i \in SectionSlides :
             /\ startsWith(slides[i].id, srcSection(i).id \o <<"-">>)
             /\ origin[i].section \notin ReservedSections
       /\ \A k \in 1..Len(discovered) : discovered[k].section \notin ReservedSections
       /\ \A i \in 1..Len(slides) :
             slides[i].layout = "summary" =>
                /\ i = Len(slides)
                /\ \A k \in 1..Len(slides[i].data.kpis) :
                      slides[i].data.kpis[k].label \notin reservedLabels

\* slides of two sections and a summary slide, from a form whose reserved
\* sections hold data
C6_Witness ==
    /\ Resolved
    /\ \E i, j \in SectionSlides : origin[i].section < origin[j].section
    /\ slides[Len(slides)].layout = "summary"
    /\ ReservedSections # {}
    /\ \A s \in ReservedSections :
          /\ Get(formData, template.sections[s].id).t = "map"
          /\ \E f \in 1..Len(template.sections[s].fields) :
                truthy(Get(Get(formData, template.sections[s].id),
                           template.sections[s].fields[f].id))

\* section ids pairwise distinct, field ids distinct within each section
DistinctIds ==
    /\ \A s, t \in 1..Len(template.sections) :
          template.sections[s].id = template.sections[t].id => s = t
    /\ \A s \in 1..Len(template.sections) :
          \A f, g \in 1..Len(template.sections[s].fields) :
             template.sections[s].fields[f].id = template.sections[s].fields[g].id => f = g

\* C7: for a template with distinct section ids and, within each section,
\* distinct field ids, no two slides of one resolved sequence have the same
\* id.
C7_UniqueIds ==
    (Resolved /\ DistinctIds) =>
       \A i, j \in 1..Len(slides) : slides[i].id = slides[j].id => i = j

\* the (section position, photo index) pairs of the photo-collection fields
\* of the non-reserved sections, and the form value of each
PhotoFields ==
    UNION {{<<s, fi>> : fi \in 0..(Len(fieldsOfType(template.sections[s], {"photos"})) - 1)} :
              s \in (1..Len(template.sections)) \ ReservedSections}
photoFieldAt(s, fi) == fieldsOfType(template.sections[s], {"photos"})[fi + 1]
photoValueAt(s, fi) ==
    Get(sectionDataOf([template |-> template, formData |-> formData], template.sections[s]),
        photoFieldAt(s, fi).id)

\* the photos of a table's rows in row order: the non-empty entries of each
\* row's photos
RECURSIVE collectedPhotos(_)
collectedPhotos(rows) ==
    IF rows = <<>> THEN <<>>
    ELSE (IF ~truthy(Get(rows[1], s_photos)) THEN <<>>
          ELSE IF Get(rows[1], s_photos).t = "arr"
               THEN SelectSeq(Get(rows[1], s_photos).v, truthy)
               ELSE <<Get(rows[1], s_photos)>>)
         \o collectedPhotos(Tail(rows))

displayLabel(field, s) == IF field.label = <<>> THEN template.sections[s].title ELSE field.label

\* the slides at positions pos are the pages of images: ceil(N/4) consecutive
\* 'photoGrid' slides of 1 to 4 images, 4 on each but the last, that
\* concatenate to images, and titled base with ' (k/T)' when T > 1
Paginated(pos, images, base) ==
    LET T == (Len(images) + 3) \div 4
        page(k) == CHOOSE i \in pos : Cardinality({j \in pos : j <= i}) = k
    IN /\ Cardinality(pos) = T
       /\ \A i, j \in pos : \A m \in i..j : m \in pos
       /\ \A k \in 1..T :
             /\ slides[page(k)].layout = "photoGrid"
             /\ Len(slides[page(k)].data.images) \in 1..4
             /\ k < T => Len(slides[page(k)].data.images) = 4
             /\ slides[page(k)].title =
                   base \o (IF T > 1
                            THEN <<" ", "(">> \o NatToStr(k) \o <<"/">> \o NatToStr(T) \o <<")">>
                            ELSE <<>>)
       /\ Flatten([k \in 1..T |-> slides[page(k)].data.images]) = images

\* C8: a photo collection of N >= 1 images gives ceil(N/4) consecutive
\* 'photoGrid' slides that partition the images in order, 4 on every page
\* but the last, with '(k/T)' in the title exactly when T > 1; the photos
\* of a table's rows are paged alike under the title '<label> - Photos';
\* there is no other 'photoGrid' slide.
C8_PhotoPages ==
    Resolved =>
       /\ \A p \in PhotoFields :
             IF nonEmptyList(photoValueAt(p[1], p[2]))
             THEN Paginated(slidesFrom("photos", p[1], p[2]), photoValueAt(p[1], p[2]).v,
                            displayLabel(photoFieldAt(p[1], p[2]), p[1]))
             ELSE slidesFrom("photos", p[1], p[2]) = {}
       /\ \A p \in TableFields :
             IF nonEmptyList(tableValueAt(p[1], p[2]))
             THEN Paginated(slidesFrom("tablePhotos", p[1], p[2]),
                            collectedPhotos(tableValueAt(p[1], p[2]).v),
                            displayLabel(tableFieldAt(p[1], p[2]), p[1])
                               \o <<" ","-"," ","P","h","o","t","o","s">>)
             ELSE slidesFrom("tablePhotos", p[1], p[2]) = {}
       /\ \A i \in 1..Len(slides) :
             slides[i].layout = "photoGrid" <=> origin[i].kind \in {"photos", "tablePhotos"}

\* a collection of 9 images on three pages, the last titled '(3/3)' and
\* holding one image, next to a table whose rows' photos fill two pages
C8_Witness ==
    /\ Resolved
    /\ \E p \in PhotoFields :
          /\ nonEmptyList(photoValueAt(p[1], p[2]))
          /\ Len(photoValueAt(p[1], p[2]).v) = 9
          /\ Cardinality(slidesFrom("photos", p[1], p[2])) = 3
          /\ \E i \in slidesFrom("photos", p[1], p[2]) :
                /\ Len(slides[i].data.images) = 1
                /\ SubSeq(slides[i].title, Len(slides[i].title) - 5, Len(slides[i].title))
                      = <<" ", "(", "3", "/", "3", ")">>
    /\ \E p \in TableFields : Cardinality(slidesFrom("tablePhotos", p[1], p[2])) = 2

SummarySlides == {i \in 1..Len(slides) : slides[i].layout = "summary"}
\* the first n discovered KPIs as a summary slide carries them
firstKpis(n) == [k \in 1..n |-> [value |-> discovered[k].value, label |-> discovered[k].label]]

\* C9: with K KPIs discovered, K < 2 gives no summary slide, 2 <= K <= 4 one
\* summary slide with all K KPIs in discovery order, and K > 4 one summary
\* slide with the first 4 KPIs in discovery order.
C9_SummaryGate ==
    Resolved =>
       IF Len(discovered) < 2 THEN SummarySlides = {}
       ELSE /\ Cardinality(SummarySlides) = 1
            /\ \A i \in SummarySlides :
                  slides[i].data.kpis
                     = firstKpis(IF Len(discovered) > 4 THEN 4 ELSE Len(discovered))

\* the labels a chart leaves out
summaryLabels ==
    {<<"t","o","t","a","l">>,
     <<"n","e","t"," ","s","u","r","p","l","u","s"," ","/"," ","(","d","e","f","i","c","i","t",")">>,
     <<"g","r","a","n","d"," ","t","o","t","a","l">>}

\* the columns after the first under which some row holds a number
numericColumns(headers, rows) ==
    {c \in 2..Len(headers) :
        \E r \in 1..Len(rows) :
           /\ ~isNullish(firstFoldedValueFor(rows[r], headers[c], c - 1))
           /\ ~isNaN(normalizeNumber(firstFoldedValueFor(rows[r], headers[c], c - 1)))}

\* the (label, value) pairs that remain after filtering: the rows with a
\* non-empty label that is no summary label and a numeric value in the first
\* numeric column; none when there is no such column
remainingPairs(headers, rows) ==
    IF numericColumns(headers, rows) = {} THEN <<>>
    ELSE LET c == CHOOSE a \in numericColumns(headers, rows) :
                     \A b \in numericColumns(headers, rows) : a <= b
             pair(r) == [label |-> asCell(firstFoldedValueFor(rows[r], headers[1], 0)),
                         value |-> normalizeNumber(firstFoldedValueFor(rows[r], headers[c], c - 1))]
             kept == {r \in 1..Len(rows) :
                        /\ pair(r).label # <<>>
                        /\ ~isNaN(pair(r).value)
                        /\ toLowerCase(pair(r).label) \notin summaryLabels}
         IN [k \in 1..Cardinality(kept) |->
                pair(CHOOSE r \in kept : Cardinality({q \in kept : q <= r}) = k)]

allZero(pairs) == \A k \in 1..Len(pairs) : pairs[k].value = Whole(0)

\* C10: a table with rows whose remaining pairs are none or all of value
\* zero gives no chart slide, and still its one 'twoColumn' slide with the
\* declared headers and the rows' cells.
C10_ChartSuppressed ==
    Resolved =>
       \A p \in TableFields :
          (/\ nonEmptyList(tableValueAt(p[1], p[2]))
           /\ allZero(remainingPairs(declaredHeaders(tableFieldAt(p[1], p[2])),
                                      tableValueAt(p[1], p[2]).v)))
          => /\ slidesFrom("chart", p[1], p[2]) = {}
             /\ \A i \in 1..Len(slides) :
                   slides[i].id # template.sections[p[1]].id \o <<"-","c","h","a","r","t","-">>
                                     \o NatToStr(p[2])
             /\ \E i \in 1..Len(slides) :
                   /\ slides[i].id = template.sections[p[1]].id \o <<"-","t","a","b","l","e","-">>
                                        \o NatToStr(p[2])
                   /\ slides[i].layout = "twoColumn"
                   /\ slides[i].data.table.headers = declaredHeaders(tableFieldAt(p[1], p[2]))
                   /\ slides[i].data.table.rows =
                         [r \in 1..Len(tableValueAt(p[1], p[2]).v) |->
                            [h \in 1..Len(declaredHeaders(tableFieldAt(p[1], p[2]))) |->
                               asCell(firstFoldedValueFor(
                                          tableValueAt(p[1], p[2]).v[r],
                                          declaredHeaders(tableFieldAt(p[1], p[2]))[h],
                                          h - 1))]]

\* a table whose remaining pairs are two, both of value zero, resolved
\* without a chart slide
C10_Witness ==
    /\ Resolved
    /\ \E p \in TableFields :
          /\ nonEmptyList(tableValueAt(p[1], p[2]))
          /\ Len(remainingPairs(declaredHeaders(tableFieldAt(p[1], p[2])),
                                 tableValueAt(p[1], p[2]).v)) = 2
          /\ allZero(remainingPairs(declaredHeaders(tableFieldAt(p[1], p[2])),
                                     tableValueAt(p[1], p[2]).v))
          /\ slidesFrom("table", p[1], p[2]) # {}
          /\ slidesFrom("chart", p[1], p[2]) = {}
    /\ \A i \in 1..Len(slides) : slides[i].layout # "chartFull"

\* the chart slides, and the number of remaining pairs of the table a chart
\* slide was derived from
ChartSlides == {i \in 1..Len(slides) : slides[i].layout = "chartFull"}
pointsOf(i) ==
    Len(remainingPairs(declaredHeaders(srcField(i, "table")), srcValue(i, "table").v))

\* C11: a chart slide derived from a table with n data points after filtering
\* shows n values and has chart type 'pie' when n <= 5 and 'bar' when n > 5;
\* every chart slide is derived from a table and has one of these two types.
C11_ChartType ==
    Resolved =>
       \A i \in ChartSlides :
          /\ origin[i].kind = "chart"
          /\ Len(slides[i].data.chart.data.values) = pointsOf(i)
          /\ slides[i].data.chart.chartType = (IF pointsOf(i) <= 5 THEN s_pie ELSE s_bar)
          /\ slides[i].originalLayout.suggestedChart.chartType = slides[i].data.chart.chartType

\* a pie chart of exactly 5 points next to a bar chart of exactly 6 points,
\* each from a table that holds a total row besides
C11_Witness ==
    /\ Resolved
    /\ \E i, j \in ChartSlides :
          /\ pointsOf(i) = 5 /\ Len(srcValue(i, "table").v) = 6
          /\ slides[i].data.chart.chartType = s_pie
          /\ pointsOf(j) = 6 /\ Len(srcValue(j, "table").v) = 7
          /\ slides[j].data.chart.chartType = s_bar

\* the form of the end-to-end scenario: quarter 'Q1 2025', prepared by 'Jane
\* Doe', and the rows Offerings and Total of '$1,200' each
OfferingsForm ==
    /\ template = OfferingsTemplate
    /\ formData.t = "map"
    /\ Get(Get(formData, s_header), s_quarter) = Str(<<"Q","1"," ","2","0","2","5">>)
    /\ Get(Get(formData, s_header), s_preparedBy) = Str(<<"J","a","n","e"," ","D","o","e">>)
    /\ Get(Get(formData, s_financial), s_income) = Arr(<<OfferingsRow, OfferingsTotalRow>>)

\* slides 1 and 2 of the scenario: the title slide and the table slide
OfferingsHead ==
    /\ Len(slides) >= 2
    /\ slides[1].layout = "title"
    /\ slides[1].title = template.title
    /\ slides[1].data = [subtitle |-> Str(<<"Q","1"," ","2","0","2","5">>), author |-> Str(<<"J","a","n","e"," ","D","o","e">>)]
    /\ slides[2].layout = "twoColumn"
    /\ slides[2].data.table = [headers |-> <<<<"I","t","e","m">>, <<"A","m","o","u","n","t">>>>,
                               rows |-> << <<<<"O","f","f","e","r","i","n","g","s">>, <<"$","1",",","2","0","0">>>>, <<<<"T","o","t","a","l">>, <<"$","1",",","2","0","0">>>> >>]

\* C13 as stated: the scenario resolves to exactly the title slide followed
\* by the table slide, with no chart slide and no summary slide.
C13_ScenarioAsClaimed ==
    (Resolved /\ OfferingsForm) =>
       /\ OfferingsHead
       /\ Len(slides) = 2
       /\ \A i \in 1..Len(slides) : slides[i].layout \notin {"chartFull", "summary"}

\* C13 amended: the scenario resolves to exactly the title slide, the table
\* slide and one pie chart slide with the single point Offerings = 1200 (the
\* Total row is filtered out, the Offerings row is not), with no summary
\* slide.
C13_ScenarioWithChart ==
    (Resolved /\ OfferingsForm) =>
       /\ OfferingsHead
       /\ Len(slides) = 3
       /\ slides[3].layout = "chartFull"
       /\ slides[3].data.chart = [chartType |-> s_pie,
                                  data |-> [labels |-> <<<<"O","f","f","e","r","i","n","g","s">>>>, values |-> <<Whole(1200)>>]]
       /\ \A i \in 1..Len(slides) : slides[i].layout # "summary"

\* the scenario has been resolved
C13_Witness == Resolved /\ OfferingsForm /\ Len(slides) > 1

\* C14: the ChartSlide given a 'chartFull' slide of the resolved sequence
\* draws a chart with the chart type, the labels and the values the resolver
\* stored under data.chart of that slide, and does not fail.
C14_ChartRendered ==
    \A k \in 1..Len(charts) :
       /\ charts[k].result = "drawn"
       /\ charts[k].chartType = slides[charts[k].index].data.chart.chartType
       /\ charts[k].labels = slides[charts[k].index].data.chart.data.labels
       /\ charts[k].values = slides[charts[k].index].data.chart.data.values

\* the place of a slide's kind in the sub-order of a section, and the place
\* of a slide among the slides of one table field
groupRank(kind) ==
    CASE kind \in {"table", "chart", "tablePhotos"} -> 1
      [] kind = "bullet" -> 2
      [] kind = "photos" -> 3
      [] kind = "text" -> 4
tableStep(kind) ==
    CASE kind = "table" -> 1
      [] kind = "chart" -> 2
      [] OTHER -> 3
\* the page number at the end of a photo slide's id
endsWith(s, suffix) ==
    Len(s) >= Len(suffix) /\ SubSeq(s, Len(s) - Len(suffix) + 1, Len(s)) = suffix
pageOf(i) ==
    Cardinality({j \in 1..i : origin[j] = origin[i]})
\* the position in its section's declaration of the field a slide was made
\* from (of the first scalar field for the text slide)
declaredAt(i) ==
    LET fields == srcSection(i).fields
        types == CASE groupRank(origin[i].kind) = 1 -> {"table"}
                   [] origin[i].kind = "bullet" -> {"bullet"}
                   [] origin[i].kind = "photos" -> {"photos"}
                   [] OTHER -> {"text", "textarea", "number", "date"}
    IN CHOOSE f \in 1..Len(fields) :
          /\ fields[f].type \in types
          /\ Cardinality({g \in 1..(f - 1) : fields[g].type \in types}) = origin[i].field

\* C15: among the slides of one section, those of tables come first, then
\* those of bullet lists, of photo collections, and the scalar-text slide;
\* slides of fields of one type follow the fields' declaration order; the
\* slides of one table field are its table slide, then its chart slide
\* directly after it when there is one, then its photo pages with ascending
\* page numbers, with no slide of another field between them; a slide is
\* titled after the field it stands for.
C15_SubOrder ==
    Resolved =>
       /\ \A i, j \in SectionSlides :
             (i < j /\ origin[i].section = origin[j].section) =>
                /\ groupRank(origin[i].kind) <= groupRank(origin[j].kind)
                /\ groupRank(origin[i].kind) = groupRank(origin[j].kind) =>
                      /\ declaredAt(i) <= declaredAt(j)
                      /\ declaredAt(i) = declaredAt(j) =>
                            /\ tableStep(origin[i].kind) <= tableStep(origin[j].kind)
                            /\ \A m \in i..j : origin[m].section = origin[i].section
                                                 /\ declaredAt(m) = declaredAt(i)
       /\ \A i \in SectionSlides :
             /\ origin[i].kind = "chart" =>
                   /\ i > 1
                   /\ origin[i - 1] = [origin[i] EXCEPT !.kind = "table"]
                   /\ slides[i - 1].layout = "twoColumn"
             /\ origin[i].kind \in {"photos", "tablePhotos"} =>
                   endsWith(slides[i].id, <<"-","p","a","g","e">> \o NatToStr(pageOf(i)))
             /\ origin[i].kind # "text" =>
                   startsWith(slides[i].title,
                              displayLabel(srcSection(i).fields[declaredAt(i)], origin[i].section))

\* a section resolved to the slides of two tables (the first with its chart
\* and two photo pages), two bullet lists, two photo collections and the
\* text slide, from fields declared text, photos, bullet, table, ...
C15_Witness ==
    /\ Resolved
    /\ template = MixedTemplate
    /\ [i \in 1..Len(slides) |-> slides[i].layout]
          = <<"title", "twoColumn", "chartFull", "photoGrid", "photoGrid", "twoColumn", "chartFull",
              "imageLeftTextRight", "imageLeftTextRight", "photoGrid", "photoGrid", "photoGrid",
              "imageLeftTextRight">>

\* the orders of n things, and a row object with its keys enumerated in
\* the order f
ordersOf(n) == {f \in [1..n -> 1..n] : \A a, b \in 1..n : f[a] = f[b] => a = b}
reordered(row, f) ==
    Obj([i \in 1..Len(row.k) |-> row.k[f[i]]], [i \in 1..Len(row.k) |-> row.v[f[i]]])
\* every header equals some key of the row exactly or under case folding
keysMatch(row, headers) ==
    /\ row.t = "obj"
    /\ \A h \in 1..Len(headers) : foldedKeys(row, headers[h]) # {}

\* C16: for a stored row of which every declared header equals some key
\* exactly or under case folding, each of the three accessors gives, for
\* each header, the value shown on the table slide, whatever the order in
\* which the row's keys are enumerated and whatever the position the header
\* is declared at.
C16_KeyOrderIndependent ==
    Resolved =>
       \A i \in TableSlides :
          \A r \in 1..Len(srcValue(i, "table").v) :
             keysMatch(srcValue(i, "table").v[r], declaredHeaders(srcField(i, "table"))) =>
                \A f \in ordersOf(Len(srcValue(i, "table").v[r].k)) :
                \A g \in ordersOf(Len(declaredHeaders(srcField(i, "table")))) :
                \A h \in 1..Len(declaredHeaders(srcField(i, "table"))) :
                   LET row == reordered(srcValue(i, "table").v[r], f)
                       header == declaredHeaders(srcField(i, "table"))[h]
                       cell == slides[i].data.table.rows[r][h]
                   IN /\ tableGetColumnValue(row, header, g[h] - 1) = cell
                      /\ asCell(chartGetColumnValue(row, header, g[h] - 1)) = cell
                      /\ asCell(summaryGetColumnValue(row, header, g[h] - 1)) = cell

\* the row's label (its first resolved column value) contains 'total',
\* 'surplus' or 'deficit' under case folding
aggregateLabel(label) ==
    \E w \in {<<"t","o","t","a","l">>, <<"s","u","r","p","l","u","s">>, <<"d","e","f","i","c","i","t">>} :
       includes(toLowerCase(label), w)
qualifies(row, headers) == aggregateLabel(asCell(firstFoldedValueFor(row, headers[1], 0)))

\* the KPI of a row: the value of its first later declared column that
\* normalizes to a number, under the field's label or else that column's
\* header; none when no later column is numeric
kpiOfRow(row, headers, field) ==
    LET numeric == {c \in 2..Len(headers) :
                      ~isNaN(normalizeNumber(firstFoldedValueFor(row, headers[c], c - 1)))}
        c == CHOOSE a \in numeric : \A b \in numeric : a <= b
    IN IF numeric = {} THEN <<>>
       ELSE << [value |-> normalizeNumber(firstFoldedValueFor(row, headers[c], c - 1)),
                label |-> IF field.label = <<>> THEN headers[c] ELSE field.label] >>

\* the KPIs of the table fields of the non-reserved sections, in section and
\* field declaration order, perField(rows, headers, field) being the KPIs
\* of one field whose value is a list of rows
kpisBy(perField(_, _, _)) ==
    LET this == [template |-> template, formData |-> formData]
        ofField(s, f) ==
            LET field == template.sections[s].fields[f]
                rows == Get(sectionDataOf(this, template.sections[s]), field.id)
            IN IF field.type = "table" /\ field.columns.t # "undefined" /\ rows.t = "arr"
               THEN perField(rows.v, field.columns.v, field)
               ELSE <<>>
        ofSection(s) ==
            IF s \in ReservedSections THEN <<>>
            ELSE Flatten([f \in 1..Len(template.sections[s].fields) |-> ofField(s, f)])
    IN Flatten([s \in 1..Len(template.sections) |-> ofSection(s)])

\* one KPI for every qualifying row
everyRowKpis(rows, headers, field) ==
    Flatten([r \in 1..Len(rows) |->
                IF qualifies(rows[r], headers) THEN kpiOfRow(rows[r], headers, field) ELSE <<>>])

\* the KPI of the first qualifying row only
firstRowKpis(rows, headers, field) ==
    LET q == {r \in 1..Len(rows) : qualifies(rows[r], headers)}
    IN IF q = {} THEN <<>>
       ELSE kpiOfRow(rows[CHOOSE r \in q : \A o \in q : r <= o], headers, field)

discoveredKpis == [k \in 1..Len(discovered) |->
                      [value |-> discovered[k].value, label |-> discovered[k].label]]

\* C17 as stated: the KPIs discovered are, for the table fields of the
\* non-reserved sections in section and field declaration order, one KPI
\* for every row whose first resolved column value contains 'total',
\* 'surplus' or 'deficit' and that has a numeric later column: the value of
\* the first such column, labelled with the field's label or else the
\* column's header.
C17_EveryTotalRow == Resolved => discoveredKpis = kpisBy(everyRowKpis)

\* C17 amended: as C17, but only the first such row of a table field in
\* stored order is looked at: it contributes one KPI when it has a numeric
\* later column and otherwise the field contributes nothing.
C17_FirstTotalRow == Resolved => discoveredKpis = kpisBy(firstRowKpis)

\* a KPI labelled with a column header, taken from the third later column
\* of the second row of a table without label
C17_Witness ==
    /\ Resolved
    /\ Len(discovered) = 1
    /\ discovered[1].label = <<"A","c","t","u","a","l">>
    /\ discovered[1].value = Whole(-2)

\* the lowest-indexed column after the first under which some stored row
\* holds a value that normalizes to a number (1-based; 0 when there is none)
valueColumn(headers, rows) ==
    IF numericColumns(headers, rows) = {} THEN 0
    ELSE CHOOSE a \in numericColumns(headers, rows) : \A b \in numericColumns(headers, rows) : a <= b

\* C18: a table field with fewer than 2 declared columns gives no chart
\* slide, nor does one with no column after the first under which some
\* stored row holds a number; every point of a chart slide is the label and
\* the normalized value, in the lowest-indexed such column, of one stored
\* row.
C18_ValueColumn ==
    Resolved =>
       \A p \in TableFields :
          nonEmptyList(tableValueAt(p[1], p[2])) =>
             LET headers == declaredHeaders(tableFieldAt(p[1], p[2]))
                 rows == tableValueAt(p[1], p[2]).v
             IN /\ Len(headers) < 2 => slidesFrom("chart", p[1], p[2]) = {}
                /\ valueColumn(headers, rows) = 0 => slidesFrom("chart", p[1], p[2]) = {}
                /\ \A i \in slidesFrom("chart", p[1], p[2]) :
                      /\ slides[i].layout = "chartFull"
                      /\ \A k \in 1..Len(slides[i].data.chart.data.values) :
                            \E r \in 1..Len(rows) :
                               /\ slides[i].data.chart.data.labels[k]
                                     = asCell(firstFoldedValueFor(rows[r], headers[1], 0))
                               /\ slides[i].data.chart.data.values[k]
                                     = normalizeNumber(firstFoldedValueFor(
                                           rows[r], headers[valueColumn(headers, rows)],
                                           valueColumn(headers, rows) - 1))

\* a chart drawn from the third of four columns, the second holding no
\* number and the fourth holding other numbers, next to tables of one
\* column and of no declared column that have rows and no chart
C18_Witness ==
    /\ Resolved
    /\ \E p \in TableFields :
          /\ nonEmptyList(tableValueAt(p[1], p[2]))
          /\ numericColumns(declaredHeaders(tableFieldAt(p[1], p[2])), tableValueAt(p[1], p[2]).v)
                = {3, 4}
          /\ \E i \in slidesFrom("chart", p[1], p[2]) :
                slides[i].data.chart.data.values = <<Whole(10)>>
    /\ \E p, q \in TableFields :
          /\ nonEmptyList(tableValueAt(p[1], p[2])) /\ nonEmptyList(tableValueAt(q[1], q[2]))
          /\ Len(declaredHeaders(tableFieldAt(p[1], p[2]))) = 0
          /\ Len(declaredHeaders(tableFieldAt(q[1], q[2]))) = 1
          /\ slidesFrom("table", p[1], p[2]) # {} /\ slidesFrom("table", q[1], q[2]) # {}

\* C19: a table with rows always has its table slide; it has a chart slide
\* exactly when the rows that remain (non-empty label, a number in the value
\* column, label under case folding none of 'total', 'net surplus /
\* (deficit)', 'grand total') are some and not all of value zero, and the
\* points of that chart are exactly these rows' labels and values in stored
\* order: a row whose cell does not normalize is left out alone.
C19_ChartFilter ==
    Resolved =>
       \A p \in TableFields :
          nonEmptyList(tableValueAt(p[1], p[2])) =>
             LET pairs == remainingPairs(declaredHeaders(tableFieldAt(p[1], p[2])),
                                         tableValueAt(p[1], p[2]).v)
             IN /\ Cardinality(slidesFrom("table", p[1], p[2])) = 1
                /\ Cardinality(slidesFrom("chart", p[1], p[2])) = (IF allZero(pairs) THEN 0 ELSE 1)
                /\ \A i \in slidesFrom("chart", p[1], p[2]) :
                      /\ slides[i].data.chart.data.labels = [k \in 1..Len(pairs) |-> pairs[k].label]
                      /\ slides[i].data.chart.data.values = [k \in 1..Len(pairs) |-> pairs[k].value]

\* a chart of one point from a table of two rows with labels that are no
\* aggregate markers, the other row's cell not normalizing
C19_Witness ==
    /\ Resolved
    /\ \E p \in TableFields :
          /\ nonEmptyList(tableValueAt(p[1], p[2]))
          /\ Len(tableValueAt(p[1], p[2]).v) = 2
          /\ \E r \in 1..2 :
                LET row == tableValueAt(p[1], p[2]).v[r]
                    headers == declaredHeaders(tableFieldAt(p[1], p[2]))
                IN /\ Len(headers) = 2
                   /\ asCell(firstFoldedValueFor(row, headers[1], 0)) = <<"M","i","s","c">>
                   /\ isNaN(normalizeNumber(firstFoldedValueFor(row, headers[2], 1)))
          /\ \E i \in slidesFrom("chart", p[1], p[2]) :
                /\ slides[i].data.chart.data.labels = << <<"F","o","o","d">> >>
                /\ slides[i].data.chart.data.values = <<Whole(1200)>>
          /\ slidesFrom("table", p[1], p[2]) # {}

\* C20: no data point of a chart slide is a row the executive-summary scan
\* accepts as a total row: no label of a chart contains 'total', 'surplus'
\* or 'deficit' under case folding.
C20_NoAggregatePoint ==
    Resolved =>
       \A i \in ChartSlides :
          \A k \in 1..Len(slides[i].data.chart.data.labels) :
             ~aggregateLabel(slides[i].data.chart.data.labels[k])

\* what is left of s after removing every '$', ',', whitespace and
\* parenthesis character
strippedOf(s) == SelectSeq(s, LAMBDA c : c \notin {"$", ",", " ", "\t", "\n", "(", ")"})

\* s is a decimal literal: an optional sign, then digits with at most one
\* point among them and at least one digit
isDecimalLiteral(s) ==
    LET body == IF s # <<>> /\ s[1] \in {"+", "-"} THEN Tail(s) ELSE s
    IN /\ \A i \in 1..Len(body) : body[i] = "." \/ isDigit(body[i])
       /\ Cardinality({i \in 1..Len(body) : body[i] = "."}) <= 1
       /\ \E i \in 1..Len(body) : isDigit(body[i])

\* the number a decimal literal denotes
literalValue(s) ==
    LET digits == SelectSeq(s, isDigit)
        decimals == Cardinality({i \in 1..Len(s) : isDigit(s[i]) /\ \E j \in 1..(i - 1) : s[j] = "."})
    IN Num(IF s[1] = "-" THEN -digitsValue(digits) ELSE digitsValue(digits), decimals)

\* the number read off the longest prefix of s that is a decimal literal,
\* NaN when no prefix is one
decimalOf(s) ==
    LET ks == {k \in 1..Len(s) : isDecimalLiteral(SubSeq(s, 1, k))}
    IN IF ks = {} THEN NaN
       ELSE literalValue(SubSeq(s, 1, CHOOSE k \in ks : \A j \in ks : j <= k))

\* s without its outer whitespace is one line that starts with '(' and ends
\* with ')'
wrappedInParens(s) ==
    LET ns == {i \in 1..Len(s) : ~isSpace(s[i])}
    IN \E a, b \in ns :
          /\ a < b /\ \A i \in ns : a <= i /\ i <= b
          /\ s[a] = "(" /\ s[b] = ")"
          /\ \A i \in a..b : s[i] # "\n"

minusAbs(x) == IF x.t = "num" THEN Num(-absInt(x.n), x.e) ELSE x

\* C12: normalizeNumber never fails and returns a number or NaN: NaN for null
\* and undefined; otherwise, with s the string form of the argument, the
\* number read off what is left of s once every '$', ',', whitespace and
\* parenthesis character is removed (NaN when nothing there reads as a
\* decimal number, as for the empty string), made -|n| when the trimmed s is
\* wrapped in parentheses; so '(1,234.50)' gives -1234.5 and '$500' gives 500.
C12_Normalize ==
    output # NotCalled =>
       /\ output.t \in {"num", "nan"}
       /\ isNullish(input) => output = NaN
       /\ ~isNullish(input) =>
             output = IF wrappedInParens(String(input))
                      THEN minusAbs(decimalOf(strippedOf(String(input))))
                      ELSE decimalOf(strippedOf(String(input)))
       /\ input = Str(<<>>) => output = NaN
       /\ input = Str(<<"(","1",",","2","3","4",".","5","0",")">>) => output = Num(-12345, 1)
       /\ input = Str(<<"$","5","0","0">>) => output = Whole(500)

\* the call on '(1,234.50)' has returned -1234.5
C12_Witness ==
    /\ input = Str(<<"(","1",",","2","3","4",".","5","0",")">>)
    /\ output = Num(-12345, 1)

\* s without its outer whitespace starts with '(' and ends with ')'
fullyWrapped(s) ==
    LET ns == {i \in 1..Len(s) : ~isSpace(s[i])}
    IN \E a, b \in ns :
          /\ a < b /\ \A i \in ns : a <= i /\ i <= b
          /\ s[a] = "(" /\ s[b] = ")"

\* C21: when the trimmed string form of the argument is fully wrapped in
\* parentheses and its cleaned content reads as a number n, normalizeNumber
\* returns -|n|, also when the content carries a sign of its own ('(500)',
\* '(-500)' and '(+500)' all give -500); an argument that is not fully
\* wrapped keeps the sign of the number read.
C21_AccountingNegative ==
    (output # NotCalled /\ ~isNullish(input)) =>
       /\ decimalOf(strippedOf(String(input))) # NaN =>
             output = IF fullyWrapped(String(input))
                      THEN minusAbs(decimalOf(strippedOf(String(input))))
                      ELSE decimalOf(strippedOf(String(input)))
       /\ input \in {Str(<<"(","5","0","0",")">>), Str(<<"(","-","5","0","0",")">>),
                     Str(<<"(","+","5","0","0",")">>)} => output = Whole(-500)

\* the stored value of a field of the header section; undefined when the form
\* has no header section or the section has no such field
headerValue(id) ==
    IF formData.t = "map" /\ s_header \in DOMAIN formData.v
    THEN (IF formData.v[s_header].t = "map" /\ id \in DOMAIN formData.v[s_header].v
          THEN formData.v[s_header].v[id] ELSE Undefined)
    ELSE Undefined
nonEmptyText(v) == v.t = "str" /\ v.v # <<>>
firstNonEmpty(a, b) == IF nonEmptyText(a) THEN a ELSE IF nonEmptyText(b) THEN b ELSE Str(<<>>)

\* C22: the title slide's subtitle is the header section's 'quarter' value
\* when non-empty, otherwise its 'reportingQuarter' value, otherwise empty;
\* its author is the 'preparedBy' value when non-empty, otherwise
\* 'reportingLeader', otherwise empty; a form without a header section or
\* without the alias fields gives an empty subtitle and author, and resolve
\* fails on a record of sections only when a section other than the header
\* has stored data.
C22_TitleFields ==
    /\ Resolved =>
          /\ Len(slides) >= 1 /\ slides[1].layout = "title"
          /\ slides[1].data.subtitle =
                firstNonEmpty(headerValue(s_quarter), headerValue(s_reportingQuarter))
          /\ slides[1].data.author =
                firstNonEmpty(headerValue(s_preparedBy), headerValue(s_reportingLeader))
    /\ (pc = "threw" /\ formData.t = "map") =>
          \E s \in 1..Len(template.sections) :
             template.sections[s].id # s_header /\ Get(formData, template.sections[s].id).t # "undefined"

\* a form whose quarter is empty and whose author is missing has resolved
\* with the second alias of each
C22_Witness ==
    /\ Resolved /\ template = CoverTemplate
    /\ headerValue(s_quarter) = Str(<<>>) /\ headerValue(s_preparedBy) = Undefined
    /\ slides[1].data.subtitle = Str(<<"Q","2">>)
    /\ slides[1].data.author = Str(<<"B","o","b">>)

\* the stored value of a field of section s; undefined when the form has no
\* record for the section or the record has no such field
storedValue(s, id) ==
    IF formData.t = "map" /\ template.sections[s].id \in DOMAIN formData.v
    THEN (IF formData.v[template.sections[s].id].t = "map"
             /\ id \in DOMAIN formData.v[template.sections[s].id].v
          THEN formData.v[template.sections[s].id].v[id] ELSE Undefined)
    ELSE Undefined
ScalarTypes == {"text", "textarea", "number", "date"}
\* the scalar fields of section s with a non-empty value, in declaration order
filledScalars(s) ==
    SelectSeq(template.sections[s].fields,
              LAMBDA f : f.type \in ScalarTypes /\ nonEmptyText(storedValue(s, f.id)))
scalarLines(s) ==
    [k \in 1..Len(filledScalars(s)) |->
        filledScalars(s)[k].label \o <<":", " ">> \o storedValue(s, filledScalars(s)[k].id).v]
textSlidesOf(s) == {i \in 1..Len(slides) : origin[i].kind = "text" /\ origin[i].section = s}

\* C23: for each non-reserved section, when at least one field of type text,
\* textarea, number or date has a non-empty value, exactly one
\* 'imageLeftTextRight' slide stands for the whole group, and its list is
\* '<label>: <value>' for each such non-empty field in declaration order and
\* nothing for the empty ones; when every such field is empty or absent there
\* is no such slide.  Slides of reserved sections do not exist.
C23_TextSlide ==
    Resolved =>
       \A s \in 1..Len(template.sections) :
          IF s \in ReservedSections \/ filledScalars(s) = <<>>
          THEN textSlidesOf(s) = {}
          ELSE /\ Cardinality(textSlidesOf(s)) = 1
               /\ \A i \in textSlidesOf(s) :
                     /\ slides[i].layout = "imageLeftTextRight"
                     /\ slides[i].data.list = scalarLines(s)

\* a section whose name is empty, whose count is '0' and whose remarks are
\* 'ok' has resolved to one text slide of two lines
C23_Witness ==
    /\ Resolved /\ template = NotesTemplate
    /\ storedValue(1, <<"n","a","m","e">>) = Str(<<>>)
    /\ \E i \in textSlidesOf(1) :
          slides[i].data.list = << <<"C","o","u","n","t",":"," ","0">>,
                                   <<"R","e","m","a","r","k","s",":"," ","o","k">> >>

BulletFields ==
    UNION {{<<s, fi>> : fi \in 0..(Len(fieldsOfType(template.sections[s], {"bullet"})) - 1)} :
              s \in (1..Len(template.sections)) \ ReservedSections}
bulletFieldAt(s, fi) == fieldsOfType(template.sections[s], {"bullet"})[fi + 1]
\* the non-empty entries of a stored bullet list, in stored order; none when
\* the value is absent or not a list
filledEntries(v) == IF v.t = "arr" THEN SelectSeq(v.v, nonEmptyText) ELSE <<>>

\* C24: each bullet-list field of a non-reserved section with at least one
\* non-empty entry gives exactly one 'imageLeftTextRight' slide, whose list
\* is the field's non-empty entries in stored order and whose image is
\* absent; a field whose entries are all empty, or whose value is absent or
\* not a list, gives no slide; no other slide is a bullet slide.
C24_BulletSlide ==
    Resolved =>
       /\ \A p \in BulletFields :
             IF filledEntries(storedValue(p[1], bulletFieldAt(p[1], p[2]).id)) = <<>>
             THEN slidesFrom("bullet", p[1], p[2]) = {}
             ELSE /\ Cardinality(slidesFrom("bullet", p[1], p[2])) = 1
                  /\ \A i \in slidesFrom("bullet", p[1], p[2]) :
                        /\ slides[i].layout = "imageLeftTextRight"
                        /\ slides[i].data.list
                              = filledEntries(storedValue(p[1], bulletFieldAt(p[1], p[2]).id))
                        /\ slides[i].data.image = Null
       /\ \A i \in 1..Len(slides) :
             origin[i].kind = "bullet" => <<origin[i].section, origin[i].field>> \in BulletFields

\* the list 'a', '', 'b' has resolved to a bullet slide of 'a' and 'b'
C24_Witness ==
    /\ Resolved /\ template = NotesTemplate
    /\ storedValue(1, <<"i","t","e","m","s">>) = Arr(<<Str(<<"a">>), Str(<<>>), Str(<<"b">>)>>)
    /\ \E i \in slidesFrom("bullet", 1, 0) :
          slides[i].data.list = <<Str(<<"a">>), Str(<<"b">>)>>

\* C25: every table slide and every bullet slide carries the icon prompt the
\* classifier gives for the title of its section; no 'photoGrid' slide, of a
\* photo collection or of table rows, carries an icon prompt; every chart
\* slide carries a prompt that names its own chart type, 'pie' or 'bar', and
\* not the other one, the type being the same in its chart data and in its
\* suggestedChart.
C25_IconPrompts ==
    Resolved =>
       \A i \in 1..Len(slides) :
          /\ origin[i].kind \in {"table", "bullet"} =>
                slides[i].originalLayout.generativeIconPrompt
                   = Str(getIconPromptForSection(srcSection(i)))
          /\ (slides[i].layout = "photoGrid" \/ origin[i].kind \in {"photos", "tablePhotos"}) =>
                /\ slides[i].layout = "photoGrid"
                /\ origin[i].kind \in {"photos", "tablePhotos"}
                /\ slides[i].originalLayout.generativeIconPrompt = Undefined
          /\ (slides[i].layout = "chartFull" \/ origin[i].kind = "chart") =>
                /\ slides[i].layout = "chartFull" /\ origin[i].kind = "chart"
                /\ slides[i].data.chart.chartType \in {s_pie, s_bar}
                /\ slides[i].originalLayout.suggestedChart.chartType
                      = slides[i].data.chart.chartType
                /\ slides[i].originalLayout.generativeIconPrompt.t = "str"
                /\ \A type \in {s_pie, s_bar} :
                      includes(slides[i].originalLayout.generativeIconPrompt.v, type)
                         <=> type = slides[i].data.chart.chartType

\* a section titled 'Disbursements' has resolved to a table slide with the
\* financial prompt and a bar chart whose prompt names a bar chart
C25_Witness ==
    /\ Resolved
    /\ \E i, j \in 1..Len(slides) :
          /\ origin[i].kind = "table" /\ origin[j] = [origin[i] EXCEPT !.kind = "chart"]
          /\ srcSection(i).title = <<"D","i","s","b","u","r","s","e","m","e","n","t","s">>
          /\ slides[i].originalLayout.generativeIconPrompt = Str(p_financial)
          /\ slides[j].data.chart.chartType = s_bar
          /\ includes(slides[j].originalLayout.generativeIconPrompt.v, <<"b","a","r"," ","c","h","a","r","t">>)

\* the keyword groups of the classifier in their fixed order
KeywordGroups ==
    << [words |-> {<<"f","i","n","a","n","c","i","a","l">>, <<"t","r","e","a","s","u","r","y">>, <<"r","e","c","e","i","p","t">>, <<"d","i","s","b","u","r","s","e","m","e","n","t">>}, prompt |-> p_financial],
       [words |-> {<<"m","e","m","b","e","r","s","h","i","p">>, <<"a","t","t","e","n","d","a","n","c","e">>}, prompt |-> p_membership],
       [words |-> {<<"p","r","o","g","r","a","m">>, <<"a","c","t","i","v","i","t","i","e","s">>, <<"m","i","n","i","s","t","r","i","e","s">>}, prompt |-> p_program],
       [words |-> {<<"y","o","u","t","h">>, <<"c","h","i","l","d","r","e","n">>}, prompt |-> p_youth],
       [words |-> {<<"o","u","t","r","e","a","c","h">>, <<"m","i","s","s","i","o","n">>}, prompt |-> p_outreach] >>
\* the groups with a keyword contained in the title under case folding
matchingGroups(title) ==
    LET within(low) ==
            {g \in DOMAIN KeywordGroups :
                \E w \in KeywordGroups[g].words :
                   \E a \in 0..(Len(low) - Len(w)) : \A k \in 1..Len(w) : low[a + k] = w[k]}
    IN within([i \in 1..Len(title) |-> lowerChar(title[i])])
promptFor(title) ==
    LET first(hits) ==
            IF hits = {} THEN p_generic
            ELSE KeywordGroups[CHOOSE g \in hits : \A h \in hits : g <= h].prompt
    IN first(matchingGroups(title))

\* C26: the classifier returns the prompt of the first group, in the order
\* financial/treasury/receipt/disbursement, membership/attendance,
\* program/activities/ministries, youth/children, outreach/mission, that has
\* a keyword contained in the lower-cased title ('Youth Programs' gets the
\* programs prompt), and the generic ministry-and-administration prompt when
\* no group matches; titles that differ in letter case only get the same
\* prompt, since the prompt is a function of the case-folded title.
C26_Classifier ==
    output # NotCalled =>
       /\ output = Str(promptFor(input.v))
       /\ input = Str(<<"Y","o","u","t","h"," ","P","r","o","g","r","a","m","s">>) => output = Str(p_program)
       /\ input \in {Str(<<"G","e","n","e","r","a","l"," ","S","t","a","f","f">>), Str(<<>>)} => output = Str(p_generic)

\* the call on 'YOUTH PROGRAMS' has returned the programs prompt
C26_Witness ==
    /\ input = Str(<<"Y","O","U","T","H"," ","P","R","O","G","R","A","M","S">>)
    /\ output = Str(p_program)

\* the k-th smallest element of a set of row positions
kthOf(K, k) == CHOOSE r \in K : Cardinality({q \in K : q < r}) = k - 1
\* labels and values are, point by point, the label and the value of one
\* row of `pairs`, the rows being taken in ascending position
alignedWith(pairs, labels, values) ==
    /\ Len(labels) = Len(values)
    /\ \E K \in SUBSET (1..Len(pairs)) :
          /\ Cardinality(K) = Len(labels)
          /\ \A k \in 1..Len(labels) :
                /\ labels[k] = pairs[kthOf(K, k)].label
                /\ values[k] = pairs[kthOf(K, k)].value

\* C27: in every chart slide, labels and values have the same length, and
\* for every index the label and the value come from the same stored row
\* (the label from column 0, the value from the chosen value column,
\* normalized), the rows in stored order: a row that is left out is left out
\* of both.
C27_PairsAligned ==
    Resolved =>
       /\ \A i \in ChartSlides : origin[i].kind = "chart"
       /\ \A p \in TableFields :
             \A i \in slidesFrom("chart", p[1], p[2]) :
                LET headers == declaredHeaders(tableFieldAt(p[1], p[2]))
                    rows == tableValueAt(p[1], p[2]).v
                    c == valueColumn(headers, rows)
                IN /\ c >= 2
                   /\ alignedWith([r \in 1..Len(rows) |->
                                      [label |-> asCell(firstFoldedValueFor(rows[r], headers[1], 0)),
                                       value |-> normalizeNumber(
                                                    firstFoldedValueFor(rows[r], headers[c], c - 1))]],
                                  slides[i].data.chart.data.labels,
                                  slides[i].data.chart.data.values)

\* a chart of the points P1 = 1, P2 = 2, P3 = 3 from a table of four rows,
\* the last one a total row
C27_Witness ==
    /\ Resolved
    /\ \E p \in TableFields :
          /\ nonEmptyList(tableValueAt(p[1], p[2]))
          /\ Len(tableValueAt(p[1], p[2]).v) = 4
          /\ \E i \in slidesFrom("chart", p[1], p[2]) :
                /\ slides[i].data.chart.data.labels = << <<"P","1">>, <<"P","2">>, <<"P","3">> >>
                /\ slides[i].data.chart.data.values = <<Whole(1), Whole(2), Whole(3)>>

\* the positions in the discovery order of the KPIs found at field f of
\* section s
kpisOfField(s, f) == {k \in 1..Len(discovered) : discovered[k].section = s /\ discovered[k].field = f}
\* the stored rows of field f of section s that qualify as total rows; none
\* when the field is no table with declared columns and a list of rows
totalRowsOf(s, f) ==
    LET field == template.sections[s].fields[f]
        rows == storedValue(s, field.id)
    IN IF field.type = "table" /\ field.columns.t # "undefined" /\ rows.t = "arr"
          /\ s \notin ReservedSections
       THEN {r \in 1..Len(rows.v) : qualifies(rows.v[r], field.columns.v)}
       ELSE {}
kpiOfStoredRow(s, f, r) ==
    kpiOfRow(storedValue(s, template.sections[s].fields[f].id).v[r],
             template.sections[s].fields[f].columns.v, template.sections[s].fields[f])

\* C28: each table field contributes zero or one KPI, taken from the first
\* row in stored order whose label contains 'total', 'surplus' or 'deficit';
\* when that row has no numeric later column the field contributes no KPI,
\* even if a later qualifying row of the same table has one; a field
\* without a qualifying row contributes none.
C28_OneKpiPerField ==
    Resolved =>
       /\ \A k \in 1..Len(discovered) :
             /\ discovered[k].section \in 1..Len(template.sections)
             /\ discovered[k].field \in 1..Len(template.sections[discovered[k].section].fields)
       /\ \A s \in 1..Len(template.sections) :
             \A f \in 1..Len(template.sections[s].fields) :
                /\ Cardinality(kpisOfField(s, f)) <= 1
                /\ totalRowsOf(s, f) = {} => kpisOfField(s, f) = {}
                /\ \A r \in totalRowsOf(s, f) :
                      (\A o \in totalRowsOf(s, f) : r <= o) =>
                         [k \in 1..Cardinality(kpisOfField(s, f)) |->
                             [value |-> discovered[kthOf(kpisOfField(s, f), k)].value,
                              label |-> discovered[kthOf(kpisOfField(s, f), k)].label]]
                            = kpiOfStoredRow(s, f, r)

\* a table whose first total row has no numeric later column and whose
\* later total row has one contributes no KPI
C28_Witness ==
    /\ Resolved
    /\ \E s \in 1..Len(template.sections) :
          \E f \in 1..Len(template.sections[s].fields) :
             /\ kpisOfField(s, f) = {}
             /\ \E r, o \in totalRowsOf(s, f) :
                   /\ r < o /\ \A q \in totalRowsOf(s, f) : r <= q
                   /\ kpiOfStoredRow(s, f, r) = <<>>
                   /\ kpiOfStoredRow(s, f, o) # <<>>

\* C29: for every row, header and header index, the cell the table slide
\* shows is the string form of the value that chart derivation and KPI
\* discovery read for the same arguments, an absent value (null or
\* undefined) being shown as the empty string; chart derivation and KPI
\* discovery read the same value.
C29_AccessorsAgree ==
    output # NotCalled =>
       /\ output.t = "threw" <=> input.row.t \in {"null", "undefined"}
       /\ output.t = "read" =>
             /\ output.table = (IF output.chart.t \in {"null", "undefined"} THEN <<>>
                                ELSE String(output.chart))
             /\ output.table = (IF output.summary.t \in {"null", "undefined"} THEN <<>>
                                ELSE String(output.summary))
             /\ output.chart = output.summary

\* the three copies have read the row {item: 'v1', Amount: 2} under the
\* header 'Item' through its case-folded key
C29_Witness ==
    /\ output # NotCalled /\ output.t = "read"
    /\ input.row = Obj(<<<<"i","t","e","m">>, <<"A","m","o","u","n","t">>>>, <<Str(<<"v","1">>), Whole(2)>>)
    /\ input.header = <<"I","t","e","m">>
    /\ output.table = <<"v","1">> /\ output.chart = Str(<<"v","1">>)

\* C30: AI features off means no external AI call.  While the export modal
\* is open, useAiFeatures = false implies photoOption = 'original' and
\* aiVisualStyle = 'minimalist'.  An export started while useAiFeatures is
\* false calls neither generateContextualImage nor editImage, places no icon
\* and places every image as it was given.  When editImage rejects with AI on,
\* the image is placed as it was given and the export goes on to the end:
\* every image of every slide is placed.
C30_AiOffNoCalls ==
    /\ ~useAiFeatures => photoOption = "original" /\ aiVisualStyle = "minimalist"
    /\ exported.t = "done" =>
          /\ exported.slides = Len(slides)
          /\ Len(exported.images) = Len(imageJobs(slides))
          /\ ~exported.useAiFeatures =>
                /\ exported.icons = <<>>
                /\ exported.withIcon = {}
                /\ \A k \in 1..Len(exported.images) :
                      /\ exported.images[k].processed.edit = "none"
                      /\ exported.images[k].processed.image = exported.images[k].original
          /\ exported.useAiFeatures =>
                \A k \in 1..Len(exported.images) :
                   exported.images[k].processed.edit = "failed"
                      => exported.images[k].processed.image = exported.images[k].original

\* an export started with AI features off on slides that carry an icon prompt
\* and two pages of photos
C30_Witness ==
    /\ exported.t = "done"
    /\ ~exported.useAiFeatures
    /\ iconSlides(slides) # <<>>
    /\ \E k \in 1..Len(exported.images) : truthy(exported.images[k].original)
    /\ Len(exported.images) > 4

TypeOK == pc \in {"idle", "resolved", "threw"}
====
